---- MODULE Spec2Model ----
(***************************************************************************)
(* StreamSpark: the DonationAlerts poller (services/donation_alerts_poller) *)
(* and its HTTP client (services/donation_alerts_client).                  *)
(*                                                                         *)
(* Threads of the program are loop threads (DonationAlertsPoller.          *)
(* _polling_loop), generation tasks (the _gen closure started for every    *)
(* qualifying donation) and the callers of the control methods.  A step of *)
(* a loop thread is one action; the statements under a lock are one step.  *)
(***************************************************************************)
EXTENDS Integers, Sequences, FiniteSets

(***************************************************************************)
(* Bounds of the model.                                                    *)
(***************************************************************************)
\* donation identifiers the provider hands out: 1..NumIds (0 is a missing id)
NumIds == 3
\* stand-in for the cap of 2000 on the processed set (poller lines 238, 257,
\* 306, 334): the model keeps the code's comparison and trimming and scales
\* the number so that the cap is exceeded within the bounds
ProcessedCap == 2
\* stand-in for the cap of 100 on the recent-donations buffer (line 359)
RecentCap == 2
\* loop threads that can be alive at once
NumLoops == 2
\* generation tasks recorded before the provider stops handing out donations
MaxTasks == 2
\* the clock runs from 0 to MaxNow
MaxNow == 1
\* the provider stops handing out donations once this many were counted
MaxProcessed == 2
\* batches that make the loop body raise
MaxErrors == 2
\* callers of generate_video
NumCalls == 2
\* calls of generate_video that pass the credential check
MaxGen == 2
\* polls of one call that report the generation as still under way
MaxPolls == 1

(***************************************************************************)
(* Program constants.                                                      *)
(***************************************************************************)
\* window_minutes of _is_fresh
FreshWindow == 5
\* Config.donation_threshold_rub
donation_threshold_rub == 1000

Ids == 1 .. NumIds
LoopIds == 1 .. NumLoops

(***************************************************************************)
(* Donations as the provider's JSON gives them.  A test-flag field is      *)
(* absent, present with a falsy value, or present with a truthy value.     *)
(* alert_type and type are absent ("none") or a string.  created_at is a   *)
(* timestamp in a format the parser knows, a string it does not know, or   *)
(* empty.  amount is a number or a string float() rejects.                 *)
(***************************************************************************)
FlagVals == {"absent", "falsy", "truthy"}
TypeVals == {"none", "test", "TEST", "donation"}
Ts(k) == [fmt |-> "ts", t |-> k]
Garbage == [fmt |-> "garbage", t |-> 0]
Empty == [fmt |-> "empty", t |-> 0]
Num(v) == [num |-> TRUE, v |-> v]
BadAmount == [num |-> FALSE, v |-> 0]

\* created_at values: stale at every clock value, exactly FreshWindow old at
\* clock 0, ahead of the clock by less and by more than FreshWindow, and the
\* two unparseable shapes
CreatedVals ==
    {Ts(0 - FreshWindow - 1), Ts(0 - FreshWindow), Ts(MaxNow + 1),
     Ts(MaxNow + FreshWindow + 1), Garbage, Empty}
AmountVals ==
    {Num(donation_threshold_rub - 1), Num(donation_threshold_rub), BadAmount}

Donation(i, f1, f2, f3, f4, at, ty, c, a, ccy) ==
    [id |-> i, is_test |-> f1, isTest |-> f2, test |-> f3, testing |-> f4,
     alert_type |-> at, type |-> ty, created_at |-> c, amount |-> a,
     currency |-> ccy]

\* a plain donation: no test field, given id, timestamp, amount and currency
Plain(i, c, a, ccy) ==
    Donation(i, "absent", "absent", "absent", "absent", "none", "none", c, a, ccy)

NoDonation == Plain(0, Empty, Num(0), "RUB")

\* every combination of the fields, for one run of the pipeline
AllDonations ==
    {Donation(i, f1, f2, f3, f4, at, ty, c, a, ccy) :
        i \in {0, 1}, f1 \in FlagVals, f2 \in FlagVals, f3 \in FlagVals,
        f4 \in FlagVals, at \in TypeVals, ty \in TypeVals,
        c \in CreatedVals, a \in AmountVals, ccy \in {"RUB", "USD"}}

\* the donations a polling loop is fed over many polls: created FreshWindow
\* before clock 0, so fresh at clock 0 and stale once the clock has moved
Fed(i, a, ccy) == Plain(i, Ts(0 - FreshWindow), a, ccy)

Donations ==
    {Fed(i, a, "RUB") : i \in Ids, a \in AmountVals}
    \cup {[Fed(i, Num(donation_threshold_rub), "RUB") EXCEPT !.is_test = "truthy"] :
             i \in Ids}
    \cup {Fed(i, Num(donation_threshold_rub - 1), "USD") : i \in Ids}
    \cup {Fed(0, Num(donation_threshold_rub), "RUB")}

\* convert_to_rub was not called
NotConverted == [ok |-> FALSE, rate |-> 0 - 1]

\* what convert_to_rub can come back with: a rate was found, or it was not
\* (None returned, or an exception raised)
ConvResults == {[ok |-> FALSE, rate |-> 0], [ok |-> TRUE, rate |-> 1],
                [ok |-> TRUE, rate |-> 2]}

(***************************************************************************)
(* Pure helpers of the poller.                                             *)
(***************************************************************************)
\* str.lower on the strings of TypeVals
Lower(s) == IF s = "TEST" THEN "test" ELSE s

\* donation.get("alert_type") or donation.get("type")
AlertType(d) == IF d.alert_type # "none" THEN d.alert_type ELSE d.type

is_test_donation(d) ==
    \/ d.is_test = "truthy"
    \/ d.isTest = "truthy"
    \/ d.test = "truthy"
    \/ d.testing = "truthy"
    \/ (AlertType(d) # "none" /\ Lower(AlertType(d)) = "test")

\* None for an empty or unknown string, the parsed time otherwise
parse_created_at(c) ==
    IF c.fmt = "ts" THEN [some |-> TRUE, t |-> c.t] ELSE [some |-> FALSE, t |-> 0]

\* mutant: the window is one minute too wide
is_fresh_WideWindow(p, nw) == p.some /\ (nw - p.t) <= FreshWindow + 1

is_fresh(p, nw) == p.some /\ (nw - p.t) <= FreshWindow

\* the statements under self._processed_lock: add, append, trim to the cap
Popped(order) ==
    IF Len(order) > ProcessedCap
    THEN {order[k] : k \in 1 .. (Len(order) - ProcessedCap)}
    ELSE {}

\* mutant: the trim drops the newest entries instead of the oldest
Trimmed_DropNewest(order) ==
    IF Len(order) > ProcessedCap THEN SubSeq(order, 1, ProcessedCap) ELSE order

Trimmed(order) ==
    IF Len(order) > ProcessedCap
    THEN SubSeq(order, Len(order) - ProcessedCap + 1, Len(order))
    ELSE order

\* mutant: the identifier is appended to the list but not added to the set
MarkSet_NoAdd(set, order, id) == set \ Popped(Append(order, id))

MarkSet(set, order, id) == (set \cup {id}) \ Popped(Append(order, id))

MarkOrder(order, id) == Trimmed(Append(order, id))

\* mutant: the buffer is never trimmed
RecordRecent_NoTrim(recent, d) ==
    IF ~d.amount.num THEN recent ELSE Append(recent, d.id)

\* _record_recent: append under the recent lock, trim the oldest; the float()
\* of a malformed amount raises inside its try and nothing is appended
RecordRecent(recent, d) ==
    IF ~d.amount.num THEN recent
    ELSE LET r == Append(recent, d.id)
         IN IF Len(r) > RecentCap
            THEN SubSeq(r, Len(r) - RecentCap + 1, Len(r))
            ELSE r

\* access tokens: "" is no token
Tokens == {"", "tok"}

VARIABLES
    api_token,           \* DonationAlertsPoller.api_token
    client_api_token,    \* DonationAlertsClient.api_token
    is_running,          \* DonationAlertsPoller.is_running
    loop_pc,             \* where each loop thread is; "none": no such thread
    cur,                 \* the donation a loop thread holds (the loop variable)
    branch,              \* the outcome the pipeline computed for cur
    amount_rub,          \* the converted amount of cur
    processed_donations, \* the processed set
    processed_order,     \* _processed_order
    processed_lock,      \* holder of _processed_lock, 0 when free
    evicted,             \* history: the ids ever trimmed from the processed set
    recent_donations,    \* ids of the recent-donations buffer, oldest first
    gen_tasks,           \* the generation threads started, in start order
    now,                 \* the wall clock, in minutes
    cfg_token,           \* config.donation_alerts_token
    cfg_refresh_token,   \* config.donationalerts_refresh_token
    cfg_creds,           \* config has a client id and a client secret
    fetch,               \* the running call of DonationAlertsClient.fetch_donations
    total_donations_processed, \* DonationAlertsPoller.total_donations_processed
    total_videos_generated,    \* DonationAlertsPoller.total_videos_generated
    api_errors,          \* DonationAlertsPoller.api_errors
    loaded,              \* the counter value a loop thread read for its +=
    converted,           \* what convert_to_rub gave a loop thread for cur
    api_key,             \* VideoGenerator: the client has an API key
    generation_count,    \* VideoGenerator.generation_count
    latest_video_path,   \* VideoGenerator.latest_video_path
    active_generation,   \* VideoGenerator.active_generation
    gv,                  \* the calls of VideoGenerator.generate_video
    report,              \* what get_generation_status returned last
    cache,               \* CurrencyConverter._cache
    clock,               \* time.time() as the converter reads it, in minutes
    cc,                  \* the running call of CurrencyConverter.convert_to_rub
    disk,                \* the files of the videos directory, oldest first
    play_request,        \* OBSWidget._play_request
    wall,                \* time.time() as the widget reads it, in half seconds
    web,                 \* the last request answered and what it did
    reply,               \* the last answer of a token or polling route
    wfc,                 \* the call of AIMLClient.wait_for_completion
    last_request_time,   \* DonationAlertsPoller.last_request_time
    sent,                \* the donation-list requests sent, oldest first
    rl,                  \* where each caller of _fetch_donations stands
    mono                 \* time.time(), in seconds

ctl == <<api_token, client_api_token, is_running>>
loc == <<cur, branch, amount_rub, loaded, converted>>
stat == <<total_donations_processed, total_videos_generated, api_errors>>
vgen == <<api_key, generation_count, latest_video_path, active_generation, gv,
          report>>
proc == <<processed_donations, processed_order, processed_lock, evicted>>
fetchVars == <<cfg_token, cfg_refresh_token, cfg_creds, fetch>>
converter == <<cache, clock, cc>>
widget == <<disk, play_request, wall, web>>
limiter == <<last_request_time, sent, rl, mono>>
aux == <<converter, widget, reply, wfc, limiter>>

vars == <<ctl, loop_pc, loc, proc, recent_donations, gen_tasks, now, aux, fetchVars,
          stat, vgen>>

\* the callers of generate_video
CallIds == 1 .. NumCalls

\* no file: latest_video_path = None, and the None generate_video returns
NoPath == [t |-> 0 - 1, n |-> 0]

\* VideoGenerator.__init__: {"active": False, "status": "idle"}
IdleGeneration ==
    [active |-> FALSE, status |-> "idle", error |-> "", video_path |-> NoPath]

\* no call of generate_video by this caller
NoCall ==
    [pc |-> "idle", inp |-> "ok", loaded |-> 0, path |-> NoPath, result |-> NoPath,
     passed |-> FALSE, starts |-> 0, polls |-> 0, downloads |-> 0,
     latest0 |-> NoPath]

\* get_generation_status has not been called
NoReport == [status |-> "", progress |-> 0 - 1, active |-> FALSE]

\* VideoGenerator.__init__; the environment has the key (k) or not
GeneratorInit(k) ==
    /\ api_key = k
    /\ generation_count = 0
    /\ latest_video_path = NoPath
    /\ active_generation = IdleGeneration
    /\ gv = [c \in CallIds |-> NoCall]
    /\ report = NoReport

\* _get_cache_duration: the TTL of a cached rate, in minutes
cache_ttl_minutes == 5

\* the converter's clock stops here
MaxClock == 7

\* get_latest_video_data: ttl_seconds
ttl_seconds == 8

\* the widget's clock stops here, in half seconds
MaxWall == 20

\* the largest max_wait_time of wait_for_completion
MaxWait == 3

\* DonationAlertsPoller.min_request_interval, in seconds
min_request_interval == 2

\* fetch_donations sleeps this long after a 429
backoff_seconds == 10

\* time.time() stops here
MaxMono == 5

\* the most donation-list requests of one behaviour
MaxSent == 3

\* the generation tasks of one batch of qualifying donations
NumTasks == 3

\* the currencies of a conversion, and the keys of the rate cache
Currencies == {"USD", "EUR"}

Pairs == Currencies \X {"RUB"}

\* the rates the exchange-rate API can answer with
Rates == {70, 90}

\* the amounts converted
Amounts == {1, 2}

\* no cached entry: _cache.get(key) is None
NoEntry == [rate |-> 0, expires_at |-> 0 - 1]

\* no call of convert_to_rub has been made
NoConversion ==
    [pc |-> "idle", amount |-> 0, key |-> <<"RUB", "RUB">>, at |-> 0 - 1,
     entry0 |-> NoEntry, rate |-> 0 - 1, gets |-> 0, cached_at |-> 0 - 1,
     result |-> 0 - 1]

\* CurrencyConverter.__init__: an empty cache
ConverterInit ==
    /\ cache = [k \in Pairs |-> NoEntry]
    /\ clock = 0
    /\ cc = NoConversion


(***************************************************************************)
(* File names, the OBS widget and the video routes.  A name is the         *)
(* sequence of its characters; the wall clock counts half seconds, so that *)
(* int(time.time()) truncates.                                             *)
(***************************************************************************)
\* accepted in the claim's example
Clip == <<"c", "l", "i", "p", "-", "1", ".", "m", "p", "4">>

\* a file outside the videos directory
Secret == <<".", ".", "/", "s", "e", "c", "r", "e", "t", ".", "m", "p", "4">>

\* a file in a subdirectory
Sub == <<"a", "/", "b", ".", "m", "p", "4">>

\* a backslash
Back == <<"a", "\\", "b", ".", "m", "p", "4">>

\* an upper-case extension
UpperExt == <<"A", "_", "b", ".", "M", "P", "4">>

\* another extension
Mp3 == <<"v", "2", ".", "m", "p", "3">>

\* white space before a safe name
Padded == <<" ", "c", "l", "i", "p", "-", "1", ".", "m", "p", "4">>

\* white space inside
Inner == <<"a", " ", "b", ".", "m", "p", "4">>

\* two dots without a separator
Dots == <<"a", ".", ".", "m", "p", "4">>

\* a character outside the allowed ones
Percent == <<"%", ".", "m", "p", "4">>

\* a second video
V2 == <<"v", "2", ".", "m", "p", "4">>

\* a safe name of no file
Absent == <<"x", ".", "m", "p", "4">>

\* white space only
Blank == <<" ">>

\* the filenames a request can carry
Names ==
    {<<>>, Clip, Secret, Sub, Back, UpperExt, Mp3,
     Padded, Inner, Dots, Percent, V2, Absent, Blank}

\* the url values of a play-in-obs payload
UrlQuery == <<"/", "v", "i", "d", "e", "o", "s", "/", "c", "l", "i", "p", "-", "1", ".", "m", "p", "4", "?", "t", "=", "1">>

UrlFragment == <<"/", "x", "/", ".", ".", "/", "v", "2", ".", "m", "p", "4", "#", "t", "o", "p">>

Urls == {<<>>, UrlQuery, UrlFragment}

\* _ALLOWED_FILENAME_CHARS
ALLOWED_FILENAME_CHARS ==
    {"a", "b", "c", "d", "e", "f", "g", "h", "i", "j", "k", "l", "m",
     "n", "o", "p", "q", "r", "s", "t", "u", "v", "w", "x", "y", "z",
     "A", "B", "C", "D", "E", "F", "G", "H", "I", "J", "K", "L", "M",
     "N", "O", "P", "Q", "R", "S", "T", "U", "V", "W", "X", "Y", "Z",
     "0", "1", "2", "3", "4", "5", "6", "7", "8", "9", "-", "_", "."}

UpperLetters ==
    <<"A", "B", "C", "D", "E", "F", "G", "H", "I", "J", "K", "L", "M",
      "N", "O", "P", "Q", "R", "S", "T", "U", "V", "W", "X", "Y", "Z">>

LowerLetters ==
    <<"a", "b", "c", "d", "e", "f", "g", "h", "i", "j", "k", "l", "m",
      "n", "o", "p", "q", "r", "s", "t", "u", "v", "w", "x", "y", "z">>

\* str.lower on one character
LowerChar(c) ==
    IF \E i \in DOMAIN UpperLetters : UpperLetters[i] = c
    THEN LowerLetters[CHOOSE i \in DOMAIN UpperLetters : UpperLetters[i] = c]
    ELSE c

\* filename.lower()
LowerName(f) == [i \in DOMAIN f |-> LowerChar(f[i])]

\* sub in f
Contains(f, sub) ==
    \E i \in 1 .. (Len(f) - Len(sub) + 1) : SubSeq(f, i, i + Len(sub) - 1) = sub

\* f.endswith(suffix)
EndsWith(f, suffix) ==
    /\ Len(f) >= Len(suffix)
    /\ SubSeq(f, Len(f) - Len(suffix) + 1, Len(f)) = suffix

\* is_safe_video_filename
is_safe_video_filename(filename) ==
    /\ filename # <<>>
    /\ ~Contains(filename, <<".", ".">>)
    /\ ~Contains(filename, <<"/">>)
    /\ ~Contains(filename, <<"\\">>)
    /\ EndsWith(LowerName(filename), <<".", "m", "p", "4">>)
    /\ \A i \in DOMAIN filename : filename[i] \in ALLOWED_FILENAME_CHARS

\* str.strip: the white space at both ends goes
RECURSIVE Strip(_)
Strip(f) ==
    IF f = <<>> THEN f
    ELSE IF Head(f) = " " THEN Strip(Tail(f))
    ELSE IF f[Len(f)] = " " THEN Strip(SubSeq(f, 1, Len(f) - 1))
    ELSE f

\* f.split(sep)[0]: what is before the first sep
Before(f, sep) ==
    IF \E i \in DOMAIN f : f[i] = sep
    THEN SubSeq(f, 1, (CHOOSE i \in DOMAIN f :
                          f[i] = sep /\ \A j \in 1 .. (i - 1) : f[j] # sep) - 1)
    ELSE f

\* f.rsplit("/", 1)[-1]: what is after the last "/"
LastSegment(f) ==
    IF \E i \in DOMAIN f : f[i] = "/"
    THEN SubSeq(f, (CHOOSE i \in DOMAIN f :
                       f[i] = "/" /\ \A j \in (i + 1) .. Len(f) : f[j] # "/") + 1,
                Len(f))
    ELSE f

\* play_in_obs: the filename of the payload, or the last segment of its url
PayloadFilename(filename, url) ==
    IF Strip(filename) = <<>> /\ Strip(url) # <<>>
    THEN LastSegment(Before(Before(Strip(url), "#"), "?"))
    ELSE Strip(filename)

\* the files at the start, oldest first, as paths from the videos directory
DiskInit == <<Secret, Sub, Inner, Dots, Clip, V2>>

\* OBSWidget.__init__: _play_request = None
NoRequest == [filename |-> <<>>, ts |-> 0]

\* no request has been answered
NoAnswer ==
    [op |-> "none", name |-> <<>>, code |-> 0, effect |-> "none", file |-> <<>>,
     at |-> 0, requested |-> "none"]

WidgetInit ==
    /\ disk = DiskInit
    /\ play_request = NoRequest
    /\ wall = 2
    /\ web = NoAnswer

\* no token or polling route has answered
NoReply == [op |-> "none", success |-> FALSE]

\* no poll has been answered
NoPoll == [http |-> 0, status |-> "none", url |-> FALSE]

\* wait_for_completion has not been called
NoWait ==
    [pc |-> "idle", max_wait_time |-> 0, poll_interval |-> 0, cb |-> "none",
     elapsed |-> 0, polled_at |-> 0, polls |-> 0, refused |-> 0, poll_cbs |-> 0,
     last |-> NoPoll, result |-> "none"]

\* the threads that call _fetch_donations: the polling loop and a request
\* to test_api_connection
Fetchers == {"loop", "test"}

\* the poller after __init__, seen min_request_interval after time 0, with
\* the loop thread at its while and no connection test under way
LimiterInit ==
    /\ last_request_time = 0
    /\ sent = <<>>
    /\ rl = [th \in Fetchers |->
                [pc |-> IF th = "loop" THEN "while" ELSE "idle", wake |-> 0]]
    /\ mono = min_request_interval

AuxInit ==
    /\ ConverterInit
    /\ WidgetInit
    /\ reply = NoReply
    /\ wfc = NoWait
    /\ LimiterInit

\* no call of fetch_donations is running
NoFetch ==
    [pc |-> "idle", gets |-> 0, refreshes |-> 0, posts |-> 0, status1 |-> "none",
     status2 |-> "none", body2 |-> "none", refreshed |-> "", bearer2 |-> "",
     result |-> "None", token0 |-> "", body1 |-> "none", slept |-> 0,
     post_answer |-> "none", post_refresh |-> "", stored |-> ""]

\* DonationAlertsPoller.__init__ and DonationAlertsClient.__init__
PollerInit ==
    /\ api_token = ""
    /\ client_api_token = ""
    /\ is_running = FALSE
    /\ loop_pc = [t \in LoopIds |-> "none"]
    /\ cur = [t \in LoopIds |-> NoDonation]
    /\ branch = [t \in LoopIds |-> "none"]
    /\ amount_rub = [t \in LoopIds |-> 0]
    /\ processed_donations = {}
    /\ processed_order = <<>>
    /\ processed_lock = 0
    /\ evicted = {}
    /\ recent_donations = <<>>
    /\ gen_tasks = <<>>
    /\ fetch = NoFetch
    /\ total_donations_processed = 0
    /\ total_videos_generated = 0
    /\ api_errors = 0
    /\ loaded = [t \in LoopIds |-> 0]
    /\ converted = [t \in LoopIds |-> NotConverted]

\* Config.__init__ leaves the tokens empty
Init ==
    /\ PollerInit
    /\ GeneratorInit(TRUE)
    /\ cfg_token = ""
    /\ cfg_refresh_token = ""
    /\ cfg_creds = FALSE
    /\ now = 0
    /\ AuxInit

(***************************************************************************)
(* The per-donation pipeline, run by loop thread t.                        *)
(***************************************************************************)
Goto(t, l) == loop_pc' = [loop_pc EXCEPT ![t] = l]

\* mutant: no identifier counts as processed
AlreadyProcessed_Never(id) == FALSE

\* donation_id in self.processed_donations
AlreadyProcessed(id) == id \in processed_donations

\* mutant: every identifier counts as present
NoId_Never(id) == FALSE

\* not donation_id: the id is missing or empty
NoId(id) == id = 0

\* _process_donations, one turn of its for loop: the provider's list yields
\* donation d; an id already in the processed set is skipped, any other
\* donation is handed to _process_single_donation
ForNext(t, d) ==
    /\ loop_pc[t] = "for"
    /\ Len(gen_tasks) < MaxTasks
    /\ total_donations_processed < MaxProcessed
    /\ cur' = [cur EXCEPT ![t] = d]
    /\ branch' = [branch EXCEPT ![t] = "none"]
    /\ amount_rub' = [amount_rub EXCEPT ![t] = 0]
    /\ IF AlreadyProcessed(d.id)
       THEN UNCHANGED loop_pc
       ELSE Goto(t, "psd_entry")
    /\ converted' = [converted EXCEPT ![t] = NotConverted]
    /\ UNCHANGED <<ctl, loaded, proc, recent_donations, gen_tasks, now, aux, fetchVars, stat, vgen>>

\* _process_donations: the list is exhausted; back in _polling_loop
ForEnd(t) ==
    /\ loop_pc[t] = "for"
    /\ Goto(t, "while")
    /\ cur' = [cur EXCEPT ![t] = NoDonation]
    /\ branch' = [branch EXCEPT ![t] = "none"]
    /\ amount_rub' = [amount_rub EXCEPT ![t] = 0]
    /\ converted' = [converted EXCEPT ![t] = NotConverted]
    /\ UNCHANGED <<ctl, loaded, proc, recent_donations, gen_tasks, now, aux, fetchVars, stat, vgen>>

\* _process_single_donation: the id is required and must not be processed yet
PsdEntry(t) ==
    /\ loop_pc[t] = "psd_entry"
    /\ IF NoId(cur[t].id) \/ AlreadyProcessed(cur[t].id)
       THEN Goto(t, "for")
       ELSE Goto(t, "psd_record")
    /\ UNCHANGED <<ctl, loc, proc, recent_donations, gen_tasks, now, aux, fetchVars, stat, vgen>>

\* _process_single_donation: self._record_recent(donation)
PsdRecord(t) ==
    /\ loop_pc[t] = "psd_record"
    /\ recent_donations' = RecordRecent(recent_donations, cur[t])
    /\ Goto(t, "psd_eval")
    /\ UNCHANGED <<ctl, loc, proc, gen_tasks, now, aux, fetchVars, stat, vgen>>

\* mutant: without a rate the amount counts as nothing
Converted_ZeroOnFailure(d, conv) ==
    IF d.currency = "RUB" THEN d.amount.v
    ELSE IF ~conv.ok THEN 0 ELSE d.amount.v * conv.rate

\* amount_rub after the conversion step: the raw amount for RUB and when the
\* converter gives nothing, the converted amount otherwise
Converted(d, conv) ==
    IF d.currency = "RUB" \/ ~conv.ok THEN d.amount.v ELSE d.amount.v * conv.rate

\* mutant: the threshold test is strict
Outcome_StrictThreshold(d, nw, conv) ==
    IF is_test_donation(d) THEN "test"
    ELSE IF ~is_fresh(parse_created_at(d.created_at), nw) THEN "stale"
    ELSE IF ~d.amount.num THEN "error"
    ELSE IF Converted(d, conv) > donation_threshold_rub THEN "qualify"
    ELSE "below"

\* mutant: the threshold is compared with the amount before conversion
Outcome_RawAmount(d, nw, conv) ==
    IF is_test_donation(d) THEN "test"
    ELSE IF ~is_fresh(parse_created_at(d.created_at), nw) THEN "stale"
    ELSE IF ~d.amount.num THEN "error"
    ELSE IF d.amount.v >= donation_threshold_rub THEN "qualify"
    ELSE "below"

\* the branch the pipeline takes for donation d at clock nw
Outcome(d, nw, conv) ==
    IF is_test_donation(d) THEN "test"
    ELSE IF ~is_fresh(parse_created_at(d.created_at), nw) THEN "stale"
    ELSE IF ~d.amount.num THEN "error"
    ELSE IF Converted(d, conv) >= donation_threshold_rub THEN "qualify"
    ELSE "below"

\* _process_single_donation: test filter, freshness check, conversion and
\* threshold check; float() of a malformed amount raises, and the handler of
\* the function logs the error and returns.  A donation that passed the
\* filters and has an amount is counted: `total_donations_processed += 1`
\* reads the counter here and writes it in PsdCount
PsdEval(t) ==
    /\ loop_pc[t] = "psd_eval"
    /\ \E conv \in ConvResults :
         LET o == Outcome(cur[t], now, conv)
         IN /\ branch' = [branch EXCEPT ![t] = o]
            /\ amount_rub' = [amount_rub EXCEPT ![t] =
                   IF o \in {"qualify", "below"} THEN Converted(cur[t], conv) ELSE 0]
            /\ loaded' = [loaded EXCEPT ![t] =
                   IF o \in {"qualify", "below"} THEN total_donations_processed ELSE 0]
            /\ converted' = [converted EXCEPT ![t] =
                   IF o \in {"qualify", "below"} /\ cur[t].currency # "RUB"
                   THEN conv ELSE NotConverted]
            /\ Goto(t, IF o = "error" THEN "for"
                       ELSE IF o \in {"qualify", "below"} THEN "psd_count"
                       ELSE "psd_lock")
    /\ UNCHANGED <<ctl, cur, proc, recent_donations, gen_tasks, now, aux, fetchVars, stat, vgen>>

\* mutant: the counter is written back as it was read
PsdCount_NoIncrement(t) ==
    /\ loop_pc[t] = "psd_count"
    /\ total_donations_processed' = loaded[t]
    /\ Goto(t, "psd_lock")
    /\ UNCHANGED <<ctl, loc, proc, recent_donations, gen_tasks, now, aux, fetchVars,
                   total_videos_generated, api_errors, vgen>>

\* the write of `self.total_donations_processed += 1`
PsdCount(t) ==
    /\ loop_pc[t] = "psd_count"
    /\ total_donations_processed' = loaded[t] + 1
    /\ Goto(t, "psd_lock")
    /\ UNCHANGED <<ctl, loc, proc, recent_donations, gen_tasks, now, aux, fetchVars,
                   total_videos_generated, api_errors, vgen>>

\* with self._processed_lock: entered
PsdLock(t) ==
    /\ loop_pc[t] = "psd_lock"
    /\ processed_lock = 0
    /\ processed_lock' = t
    /\ Goto(t, "psd_mark")
    /\ UNCHANGED <<ctl, loc, processed_donations, processed_order, evicted,
                   recent_donations, gen_tasks, now, aux, fetchVars, stat, vgen>>

\* the body under the lock and its release; only a qualifying donation goes on
PsdMark(t) ==
    /\ loop_pc[t] = "psd_mark"
    /\ processed_lock = t
    /\ processed_donations' =
           MarkSet(processed_donations, processed_order, cur[t].id)
    /\ processed_order' = MarkOrder(processed_order, cur[t].id)
    /\ evicted' = evicted \cup Popped(Append(processed_order, cur[t].id))
    /\ processed_lock' = 0
    /\ Goto(t, IF branch[t] = "qualify" THEN "psd_dispatch" ELSE "for")
    /\ UNCHANGED <<ctl, loc, recent_donations, gen_tasks, now, aux, fetchVars, stat, vgen>>

\* threading.Thread(target=_gen, daemon=True).start()
PsdDispatch(t) ==
    /\ loop_pc[t] = "psd_dispatch"
    /\ gen_tasks' = Append(gen_tasks,
           [id |-> cur[t].id, amount_rub |-> amount_rub[t], st |-> "spawned",
            loaded |-> 0])
    /\ Goto(t, "for")
    /\ UNCHANGED <<ctl, loc, proc, recent_donations, now, aux, fetchVars, stat, vgen>>

Pipeline(t) ==
    \/ PsdEntry(t)
    \/ PsdRecord(t)
    \/ PsdEval(t)
    \/ PsdCount(t)
    \/ PsdLock(t)
    \/ PsdMark(t)
    \/ PsdDispatch(t)

(***************************************************************************)
(* _polling_loop, run by loop thread t.                                    *)
(***************************************************************************)
\* while self.is_running: the loop goes on, or the thread ends
LoopCheck(t) ==
    /\ loop_pc[t] = "while"
    /\ Goto(t, IF is_running THEN "poll" ELSE "none")
    /\ UNCHANGED <<ctl, loc, proc, recent_donations, gen_tasks, now, aux, fetchVars, stat, vgen>>

\* the rate-limit sleep and _fetch_donations gave a non-empty list
PollSome(t) ==
    /\ loop_pc[t] = "poll"
    /\ client_api_token # ""
    /\ Goto(t, "for")
    /\ UNCHANGED <<ctl, loc, proc, recent_donations, gen_tasks, now, aux, fetchVars, stat, vgen>>

\* _fetch_donations gave None (no token, a failed request) or an empty list
PollNone(t) ==
    /\ loop_pc[t] = "poll"
    /\ Goto(t, "while")
    /\ UNCHANGED <<ctl, loc, proc, recent_donations, gen_tasks, now, aux, fetchVars, stat, vgen>>

\* _fetch_donations gave a list with an element that is not an object:
\* donation.get raises in _process_donations, outside the handler of
\* _process_single_donation, and the handler of the loop body takes it;
\* `self.api_errors += 1` reads the counter here and writes it in PollErr
PollBad(t) ==
    /\ loop_pc[t] = "poll"
    /\ client_api_token # ""
    /\ api_errors < MaxErrors
    /\ loaded' = [loaded EXCEPT ![t] = api_errors]
    /\ Goto(t, "poll_err")
    /\ UNCHANGED <<ctl, cur, branch, amount_rub, converted, proc, recent_donations, gen_tasks,
                   now, aux, fetchVars, stat, vgen>>

\* the write of `self.api_errors += 1`, then time.sleep(5) and the next turn
PollErr(t) ==
    /\ loop_pc[t] = "poll_err"
    /\ api_errors' = loaded[t] + 1
    /\ Goto(t, "while")
    /\ UNCHANGED <<ctl, loc, proc, recent_donations, gen_tasks, now, aux, fetchVars,
                   total_donations_processed, total_videos_generated, vgen>>

\* the loop body raises and its handler runs
LoopErr(t) ==
    \/ PollBad(t)
    \/ PollErr(t)

\* the loop over well-formed batches drawn from D
Loop(t, D) ==
    \/ LoopCheck(t)
    \/ PollSome(t)
    \/ PollNone(t)
    \/ \E d \in D : ForNext(t, d)
    \/ ForEnd(t)
    \/ Pipeline(t)

(***************************************************************************)
(* The control methods of the poller.                                      *)
(***************************************************************************)
\* set_api_token: the poller's copy and the client's
set_api_token(tok) ==
    /\ api_token' = tok
    /\ client_api_token' = tok
    /\ UNCHANGED <<is_running, loop_pc, loc, proc, recent_donations, gen_tasks,
                   now, aux, fetchVars, stat, vgen>>

\* start_polling on a poller whose api_token is tok: nothing when it runs
\* or has no token, or else the flag is set and a thread is started
PollerStart(L, tok) ==
    IF is_running \/ tok = ""
    THEN UNCHANGED <<is_running, loop_pc>>
    ELSE /\ is_running' = TRUE
         /\ \E t \in L :
              /\ loop_pc[t] = "none"
              /\ \A u \in L : u < t => loop_pc[u] # "none"
              /\ Goto(t, "while")

\* mutant: start_polling without the test of is_running
start_polling_NoRunningCheck(L) ==
    /\ IF api_token = ""
       THEN UNCHANGED <<is_running, loop_pc>>
       ELSE /\ is_running' = TRUE
            /\ \E t \in L :
                 /\ loop_pc[t] = "none"
                 /\ \A u \in L : u < t => loop_pc[u] # "none"
                 /\ Goto(t, "while")
    /\ UNCHANGED <<api_token, client_api_token, loc, proc, recent_donations,
                   gen_tasks, now, aux, fetchVars, stat, vgen>>

\* start_polling; the new thread takes the first free slot of L
start_polling(L) ==
    /\ PollerStart(L, api_token)
    /\ UNCHANGED <<api_token, client_api_token, loc, proc, recent_donations,
                   gen_tasks, now, aux, fetchVars, stat, vgen>>

\* mutant: stopping also ends the generation threads
stop_polling_CancelsTasks ==
    /\ is_running' = FALSE
    /\ gen_tasks' = [i \in DOMAIN gen_tasks |->
                       IF gen_tasks[i].st \in {"ok", "failed"} THEN gen_tasks[i]
                       ELSE [gen_tasks[i] EXCEPT !.st = "failed"]]
    /\ UNCHANGED <<api_token, client_api_token, loop_pc, loc, proc,
                   recent_donations, now, aux, fetchVars, stat, vgen>>

\* stop_polling: the flag is cleared; the join of at most 5 seconds changes
\* nothing and returns whether or not the loop thread has ended
stop_polling ==
    /\ is_running' = FALSE
    /\ UNCHANGED <<api_token, client_api_token, loop_pc, loc, proc,
                   recent_donations, gen_tasks, now, aux, fetchVars, stat, vgen>>

Control(L) ==
    \/ \E tok \in Tokens : set_api_token(tok)
    \/ start_polling(L)
    \/ stop_polling

(***************************************************************************)
(* Generation tasks (_gen) and the clock.                                  *)
(***************************************************************************)
SetTask(i, st) == gen_tasks' = [gen_tasks EXCEPT ![i].st = st]

\* the started thread gets to run: _gen calls generate_video
GenStart(i) ==
    /\ gen_tasks[i].st = "spawned"
    /\ SetTask(i, "running")
    /\ UNCHANGED <<ctl, loop_pc, loc, proc, recent_donations, now, aux, fetchVars, stat, vgen>>

\* generate_video returned nothing or raised; or it returned a path, and
\* `self.total_videos_generated += 1` reads the counter
GenFinish(i) ==
    /\ gen_tasks[i].st = "running"
    /\ \/ SetTask(i, "failed")
       \/ gen_tasks' = [gen_tasks EXCEPT ![i].st = "counting",
                                         ![i].loaded = total_videos_generated]
    /\ UNCHANGED <<ctl, loop_pc, loc, proc, recent_donations, now, aux, fetchVars, stat, vgen>>

\* the write of `self.total_videos_generated += 1`
GenCount(i) ==
    /\ gen_tasks[i].st = "counting"
    /\ total_videos_generated' = gen_tasks[i].loaded + 1
    /\ SetTask(i, "ok")
    /\ UNCHANGED <<ctl, loop_pc, loc, proc, recent_donations, now, aux, fetchVars,
                   total_donations_processed, api_errors, vgen>>

Gen == \E i \in 1 .. Len(gen_tasks) : GenStart(i) \/ GenFinish(i) \/ GenCount(i)

Tick ==
    /\ now < MaxNow
    /\ now' = now + 1
    /\ UNCHANGED <<ctl, loop_pc, loc, proc, recent_donations, gen_tasks, aux, fetchVars,
                   stat, vgen>>

(***************************************************************************)
(* Spec: the poller with one loop thread alive at a time.                  *)
(***************************************************************************)
Next ==
    \/ Control({1})
    \/ Loop(1, Donations)
    \/ Gen
    \/ Tick

Spec == Init /\ [][Next]_vars

(***************************************************************************)
(* SpecConc: a stop whose join timed out leaves the old loop thread alive, *)
(* and the next start adds a second one.  The loops share the poller.  It  *)
(* starts where apply_initial_config leaves a poller that has a token:     *)
(* set_api_token, then start_polling.                                      *)
(***************************************************************************)
ConcDonations ==
    {Fed(i, Num(donation_threshold_rub), "RUB") : i \in Ids}
    \cup {Fed(1, Num(donation_threshold_rub - 1), "RUB")}

InitConc ==
    /\ api_token = "tok"
    /\ client_api_token = "tok"
    /\ is_running = TRUE
    /\ loop_pc = [t \in LoopIds |-> IF t = 1 THEN "while" ELSE "none"]
    /\ cur = [t \in LoopIds |-> NoDonation]
    /\ branch = [t \in LoopIds |-> "none"]
    /\ amount_rub = [t \in LoopIds |-> 0]
    /\ processed_donations = {}
    /\ processed_order = <<>>
    /\ processed_lock = 0
    /\ evicted = {}
    /\ recent_donations = <<>>
    /\ gen_tasks = <<>>
    /\ fetch = NoFetch
    /\ total_donations_processed = 0
    /\ total_videos_generated = 0
    /\ api_errors = 0
    /\ loaded = [t \in LoopIds |-> 0]
    /\ converted = [t \in LoopIds |-> NotConverted]
    /\ GeneratorInit(TRUE)
    /\ cfg_token = "tok"
    /\ cfg_refresh_token = ""
    /\ cfg_creds = FALSE
    /\ now = 0
    /\ AuxInit

NextConc ==
    \/ start_polling(LoopIds)
    \/ stop_polling
    \/ \E t \in LoopIds : Loop(t, ConcDonations)

SpecConc == InitConc /\ [][NextConc]_vars

(***************************************************************************)
(* SpecCtl: the poller under every sequence of set_api_token, start_polling *)
(* and stop_polling, with the loop threads those calls leave alive.  The   *)
(* provider hands out one qualifying donation and one with a malformed     *)
(* amount, and batches that make the loop body raise.  FairCtl: every loop *)
(* thread that can take a step eventually takes one, and a batch is finite *)
(* (at most `limit` donations), so the for loop ends.  The callers of the  *)
(* control methods are under no obligation.                                *)
(***************************************************************************)
CtlDonations ==
    {Fed(1, Num(donation_threshold_rub), "RUB"), Fed(2, BadAmount, "RUB")}

LoopCtl(t) == Loop(t, CtlDonations) \/ LoopErr(t)

NextCtl ==
    \/ Control(LoopIds)
    \/ \E t \in LoopIds : LoopCtl(t)

FairCtl == \A t \in LoopIds : WF_vars(LoopCtl(t)) /\ SF_vars(ForEnd(t))

SpecCtl == Init /\ [][NextCtl]_vars /\ FairCtl

(***************************************************************************)
(* SpecRun: one run of _process_single_donation by a started loop on a     *)
(* fresh poller, for every donation of AllDonations and every clock value. *)
(***************************************************************************)
InitRun ==
    /\ api_token = "tok"
    /\ client_api_token = "tok"
    /\ is_running = TRUE
    /\ loop_pc = [t \in LoopIds |-> IF t = 1 THEN "psd_entry" ELSE "none"]
    /\ \E d \in AllDonations : cur = [t \in LoopIds |-> IF t = 1 THEN d ELSE NoDonation]
    /\ branch = [t \in LoopIds |-> "none"]
    /\ amount_rub = [t \in LoopIds |-> 0]
    /\ processed_donations = {}
    /\ processed_order = <<>>
    /\ processed_lock = 0
    /\ evicted = {}
    /\ recent_donations = <<>>
    /\ gen_tasks = <<>>
    /\ fetch = NoFetch
    /\ total_donations_processed = 0
    /\ total_videos_generated = 0
    /\ api_errors = 0
    /\ loaded = [t \in LoopIds |-> 0]
    /\ converted = [t \in LoopIds |-> NotConverted]
    /\ GeneratorInit(TRUE)
    /\ cfg_token = "tok"
    /\ cfg_refresh_token = ""
    /\ cfg_creds = FALSE
    /\ now \in 0 .. MaxNow
    /\ AuxInit

NextRun ==
    \/ Pipeline(1)
    \/ Gen

SpecRun == InitRun /\ [][NextRun]_vars

(***************************************************************************)
(* DonationAlertsClient.fetch_donations and refresh_access_token.  A call  *)
(* is cut at its HTTP requests; what the servers answer is the             *)
(* environment's choice.                                                   *)
(***************************************************************************)
ClientTokens == {"", "old-token", "new-token"}
\* answers to the GET: a status code, or no answer (RequestException)
Statuses == {"200", "401", "429", "500", "neterr"}
\* the body of a 200: JSON whose "data" is a list, or not JSON
Bodies == {"list", "malformed"}
\* answers to the refresh POST: failures, or a token response
PostFailures == {"neterr", "500", "no_access_token"}
\* the refresh_token of a token response; "" when it has none
RefreshTokens == {"", "rtoken", "new-refresh"}

\* mutant: the error of response.json() leaves the call
Parsed_Raises(k, body) ==
    IF body = "malformed" THEN "raised"
    ELSE IF k = 1 THEN "list1" ELSE "list2"

\* what the call returns for the body of its k-th GET: the list, or None when
\* response.json() raised and the handler of the call caught it
Parsed(k, body) ==
    IF body = "malformed" THEN "None"
    ELSE IF k = 1 THEN "list1" ELSE "list2"

Finish(f, res) == [f EXCEPT !.pc = "done", !.result = res]

\* DonationAlertsClient.set_api_token, between two calls of fetch_donations
client_set_api_token(tok) ==
    /\ fetch.pc = "idle"
    /\ client_api_token' = tok
    /\ UNCHANGED <<api_token, is_running, loop_pc, loc, proc, recent_donations,
                   gen_tasks, now, aux, fetchVars, stat, vgen>>

\* fetch_donations is called: without a token it returns None at once
FetchCall ==
    /\ fetch.pc = "idle"
    /\ fetch' = IF client_api_token = ""
                THEN Finish(NoFetch, "None")
                ELSE [NoFetch EXCEPT !.pc = "get1", !.token0 = client_api_token]
    /\ UNCHANGED <<ctl, loop_pc, loc, proc, recent_donations, gen_tasks, now, aux,
                   cfg_token, cfg_refresh_token, cfg_creds, stat, vgen>>

\* the state of the call after the answer to its first GET; a 429 is
\* followed by time.sleep(10) before the return
AfterGet1(f, status, body) ==
    LET g == [f EXCEPT !.gets = f.gets + 1, !.status1 = status, !.body1 = body]
    IN IF status = "401" THEN [g EXCEPT !.pc = "refresh"]
       ELSE IF status = "429" THEN Finish([g EXCEPT !.slept = g.slept + 1], "None")
       ELSE IF status = "200" THEN Finish(g, Parsed(1, body))
       ELSE Finish(g, "None")

FetchGet1(status, body) ==
    /\ fetch.pc = "get1"
    /\ fetch' = AfterGet1(fetch, status, body)
    /\ UNCHANGED <<ctl, loop_pc, loc, proc, recent_donations, gen_tasks, now, aux,
                   cfg_token, cfg_refresh_token, cfg_creds, stat, vgen>>

\* refresh_access_token gives up before the POST
CannotRefresh == ~cfg_creds \/ cfg_refresh_token = ""

\* the 401 branch: refresh_access_token fails (credentials missing, or the
\* POST fails) and fetch_donations returns None
FetchRefreshFail(answer) ==
    /\ fetch.pc = "refresh"
    /\ fetch' = Finish([fetch EXCEPT !.refreshes = fetch.refreshes + 1,
                                     !.posts = IF CannotRefresh THEN fetch.posts
                                               ELSE fetch.posts + 1,
                                     !.post_answer = IF CannotRefresh THEN "none"
                                                     ELSE answer],
                       "None")
    /\ UNCHANGED <<ctl, loop_pc, loc, proc, recent_donations, gen_tasks, now, aux,
                   cfg_token, cfg_refresh_token, cfg_creds, stat, vgen>>

\* mutant: the refresh token of the response is stored even when it is absent
NewRefreshToken_Overwrite(old, r) == r

\* the configuration's refresh token after a token response
NewRefreshToken(old, r) == IF r = "" THEN old ELSE r

\* mutant: the configuration keeps its old access token
NewConfigToken_Stale(old, access) == old

\* the configuration's access token after a token response
NewConfigToken(old, access) == access

\* the 401 branch: the POST answers 200 with an access token; the client and
\* the configuration take it and the GET is repeated
FetchRefreshOk(access, r) ==
    /\ fetch.pc = "refresh"
    /\ ~CannotRefresh
    /\ client_api_token' = access
    /\ cfg_token' = NewConfigToken(cfg_token, access)
    /\ cfg_refresh_token' = NewRefreshToken(cfg_refresh_token, r)
    /\ fetch' = [fetch EXCEPT !.pc = "get2", !.refreshes = fetch.refreshes + 1,
                              !.posts = fetch.posts + 1, !.refreshed = access,
                              !.stored = access, !.post_answer = "ok",
                              !.post_refresh = r]
    /\ UNCHANGED <<api_token, is_running, loop_pc, loc, proc, recent_donations,
                   gen_tasks, now, aux, cfg_creds, stat, vgen>>

\* the 401 branch: the POST answers 200 with an access token and an
\* expires_in that int() rejects; the tokens are stored (lines 106-108)
\* before line 111 raises, the handler of refresh_access_token returns
\* False, and fetch_donations returns None
FetchRefreshBadExpiry(access, r) ==
    /\ fetch.pc = "refresh"
    /\ ~CannotRefresh
    /\ client_api_token' = access
    /\ cfg_token' = NewConfigToken(cfg_token, access)
    /\ cfg_refresh_token' = NewRefreshToken(cfg_refresh_token, r)
    /\ fetch' = Finish([fetch EXCEPT !.refreshes = fetch.refreshes + 1,
                                     !.posts = fetch.posts + 1,
                                     !.stored = access,
                                     !.post_answer = "bad_expires_in",
                                     !.post_refresh = r],
                       "None")
    /\ UNCHANGED <<api_token, is_running, loop_pc, loc, proc, recent_donations,
                   gen_tasks, now, aux, cfg_creds, stat, vgen>>

\* the state of the call after the answer to the repeated GET
AfterGet2(f, status, body, bearer) ==
    LET g == [f EXCEPT !.gets = f.gets + 1, !.status2 = status, !.body2 = body,
                       !.bearer2 = bearer]
    IN IF status = "200" THEN Finish(g, Parsed(2, body)) ELSE Finish(g, "None")

FetchGet2(status, body) ==
    /\ fetch.pc = "get2"
    /\ fetch' = AfterGet2(fetch, status, body, client_api_token)
    /\ UNCHANGED <<ctl, loop_pc, loc, proc, recent_donations, gen_tasks, now, aux,
                   cfg_token, cfg_refresh_token, cfg_creds, stat, vgen>>

\* the caller has the result
FetchReturn ==
    /\ fetch.pc = "done"
    /\ fetch' = NoFetch
    /\ UNCHANGED <<ctl, loop_pc, loc, proc, recent_donations, gen_tasks, now, aux,
                   cfg_token, cfg_refresh_token, cfg_creds, stat, vgen>>

(***************************************************************************)
(* SpecFetch: a client on its own, as the unit tests drive it: a           *)
(* configuration with or without refresh credentials, the token set        *)
(* between calls, and calls of fetch_donations one after another.          *)
(***************************************************************************)
InitFetch ==
    /\ PollerInit
    /\ GeneratorInit(TRUE)
    /\ cfg_token = ""
    /\ cfg_refresh_token \in {"", "rtoken"}
    /\ cfg_creds \in BOOLEAN
    /\ now = 0
    /\ AuxInit

NextFetch ==
    \/ \E tok \in ClientTokens : client_set_api_token(tok)
    \/ FetchCall
    \/ \E st \in Statuses, b \in Bodies : FetchGet1(st, b)
    \/ \E a \in PostFailures : FetchRefreshFail(a)
    \/ \E a \in ClientTokens \ {""}, r \in RefreshTokens : FetchRefreshOk(a, r)
    \/ \E a \in ClientTokens \ {""}, r \in RefreshTokens : FetchRefreshBadExpiry(a, r)
    \/ \E st \in Statuses, b \in Bodies : FetchGet2(st, b)
    \/ FetchReturn

SpecFetch == InitFetch /\ [][NextFetch]_vars

(***************************************************************************)
(* VideoGenerator.generate_video, called by caller c.  A call is cut at    *)
(* its reads and writes of the generator's fields and at its requests;     *)
(* what the video API answers is the environment's choice.                 *)
(***************************************************************************)
\* what the arguments do to the call: nothing, or they make the log line of
\* line 75 raise (donation_info without 'username'), or they make the prompt
\* building of lines 93-110 raise (a custom_prompt that cannot be sliced)
GvInputs == {"ok", "raise_info", "raise_prompt"}
\* statuses the API reports while the generation is under way
ProgressStatuses == {"waiting", "active", "queued", "generating"}
\* how wait_for_completion ends
\* statuses the API may report that the client does not know; each ends the
\* wait
UnknownStatuses == {"failed", "DONE", "Generating"}
WaitAnswers ==
    {"completed_url", "completed_nourl", "http_error", "timeout", "exception"}
    \cup UnknownStatuses

SetCall(c, r) == gv' = [gv EXCEPT ![c] = r]
\* the call returns res
Return(r, res) == [r EXCEPT !.pc = "done", !.result = res]

\* mutant: the call goes on without the credential check
GvCall_NoKeyCheck(c, inp) ==
    /\ gv[c].pc = "idle"
    /\ generation_count < MaxGen
    /\ SetCall(c, [NoCall EXCEPT !.pc = "count", !.inp = inp, !.passed = TRUE,
                                 !.loaded = generation_count,
                                 !.latest0 = latest_video_path])
    /\ UNCHANGED <<ctl, loop_pc, loc, proc, recent_donations, gen_tasks, now, aux,
                   fetchVars, stat, report, api_key, generation_count, latest_video_path,
                   active_generation>>

\* the credential check; past it, `self.generation_count += 1` reads the
\* counter
GvCall(c, inp) ==
    /\ gv[c].pc = "idle"
    /\ generation_count < MaxGen
    /\ IF ~api_key
       THEN SetCall(c, Return([NoCall EXCEPT !.latest0 = latest_video_path], NoPath))
       ELSE SetCall(c, [NoCall EXCEPT !.pc = "count", !.inp = inp, !.passed = TRUE,
                                      !.loaded = generation_count,
                                      !.latest0 = latest_video_path])
    /\ UNCHANGED <<ctl, loop_pc, loc, proc, recent_donations, gen_tasks, now, aux,
                   fetchVars, stat, report, api_key, generation_count, latest_video_path,
                   active_generation>>

\* the write of `self.generation_count += 1`
GvCount(c) ==
    /\ gv[c].pc = "count"
    /\ generation_count' = gv[c].loaded + 1
    /\ SetCall(c, [gv[c] EXCEPT !.pc = "name"])
    /\ UNCHANGED <<ctl, loop_pc, loc, proc, recent_donations, gen_tasks, now, aux,
                   fetchVars, stat, report, api_key, latest_video_path, active_generation>>

\* video_filename: celebration_<time>_<generation_count>.mp4
GvName(c) ==
    /\ gv[c].pc = "name"
    /\ SetCall(c, [gv[c] EXCEPT !.pc = "info",
                                !.path = [t |-> now, n |-> generation_count]])
    /\ UNCHANGED <<ctl, loop_pc, loc, proc, recent_donations, gen_tasks, now, aux,
                   fetchVars, stat, report, api_key, generation_count, latest_video_path,
                   active_generation>>

\* the state record of a call that starts
Starting ==
    [active |-> TRUE, status |-> "starting", error |-> "", video_path |-> NoPath]

\* the log line of line 75, which raises into the handler of the call when
\* donation_info has no 'username'; then the state record is replaced
GvStarting(c) ==
    /\ gv[c].pc = "info"
    /\ IF gv[c].inp = "raise_info"
       THEN /\ SetCall(c, Return(gv[c], NoPath))
            /\ UNCHANGED active_generation
       ELSE /\ SetCall(c, [gv[c] EXCEPT !.pc = "prompt"])
            /\ active_generation' = Starting
    /\ UNCHANGED <<ctl, loop_pc, loc, proc, recent_donations, gen_tasks, now, aux,
                   fetchVars, stat, report, api_key, generation_count, latest_video_path>>

\* the prompt is built; an exception goes to the handler of the call, which
\* logs and returns None
GvPrompt(c) ==
    /\ gv[c].pc = "prompt"
    /\ SetCall(c, IF gv[c].inp = "raise_prompt"
                  THEN Return(gv[c], NoPath)
                  ELSE [gv[c] EXCEPT !.pc = "start"])
    /\ UNCHANGED <<ctl, loop_pc, loc, proc, recent_donations, gen_tasks, now, aux,
                   fetchVars, stat, report, api_key, generation_count, latest_video_path,
                   active_generation>>

\* the state record after a failed start
StartFailed ==
    [active |-> FALSE, status |-> "error", error |-> "start_failed",
     video_path |-> NoPath]

\* mutant: a failed start is tried again
GvStart_Retry(c, ok) ==
    /\ gv[c].pc = "start"
    /\ SetCall(c, [gv[c] EXCEPT !.pc = IF ok THEN "wait" ELSE "start",
                                !.starts = @ + 1])
    /\ active_generation' =
           [active_generation EXCEPT
               !.status = IF @ = "starting" THEN "queued" ELSE @]
    /\ UNCHANGED <<ctl, loop_pc, loc, proc, recent_donations, gen_tasks, now, aux,
                   fetchVars, stat, report, api_key, generation_count, latest_video_path>>

\* _start_video_generation: one request; without a generation id the call
\* ends, with one the status goes from "starting" to "queued"
GvStart(c, ok) ==
    /\ gv[c].pc = "start"
    /\ IF ok
       THEN /\ SetCall(c, [gv[c] EXCEPT !.pc = "wait", !.starts = @ + 1])
            /\ active_generation' =
                   [active_generation EXCEPT
                       !.status = IF @ = "starting" THEN "queued" ELSE @]
       ELSE /\ SetCall(c, Return([gv[c] EXCEPT !.starts = @ + 1], NoPath))
            /\ active_generation' = StartFailed
    /\ UNCHANGED <<ctl, loop_pc, loc, proc, recent_donations, gen_tasks, now, aux,
                   fetchVars, stat, report, api_key, generation_count, latest_video_path>>

GvFrame ==
    UNCHANGED <<ctl, loop_pc, loc, proc, recent_donations, gen_tasks, now, aux,
                fetchVars, stat, report, api_key, generation_count>>

\* wait_for_completion, one poll that reports the generation as under way:
\* the progress callback (_on_progress) writes the reported status
GvPoll(c, st) ==
    /\ gv[c].pc = "wait"
    /\ gv[c].polls < MaxPolls
    /\ SetCall(c, [gv[c] EXCEPT !.polls = @ + 1])
    /\ active_generation' = [active_generation EXCEPT !.status = st]
    /\ UNCHANGED latest_video_path
    /\ GvFrame

\* the status the progress callbacks leave when wait_for_completion ends
\* with answer a: "completed" with or without a url, a status outside the
\* known ones, HTTP >= 400 (no callback), the time-out, or an exception
StatusAfterWait(old, a) ==
    CASE a = "completed_url"   -> "completed"
      [] a = "completed_nourl" -> "error"
      [] a \in UnknownStatuses -> a
      [] a = "http_error"      -> old
      [] a = "timeout"         -> "timeout"
      [] a = "exception"       -> "error"

\* wait_for_completion returns: the video url, or None
GvWaitEnd(c, a) ==
    /\ gv[c].pc = "wait"
    /\ SetCall(c, [gv[c] EXCEPT
           !.pc = IF a = "completed_url" THEN "downloading" ELSE "wait_failed"])
    /\ active_generation' =
           [active_generation EXCEPT !.status = StatusAfterWait(@, a)]
    /\ UNCHANGED latest_video_path
    /\ GvFrame

\* no video url: the record is updated to inactive/"error", None is returned
GvWaitFailed(c) ==
    /\ gv[c].pc = "wait_failed"
    /\ SetCall(c, Return(gv[c], NoPath))
    /\ active_generation' =
           [active_generation EXCEPT !.active = FALSE, !.status = "error"]
    /\ UNCHANGED latest_video_path
    /\ GvFrame

\* self.active_generation["status"] = "downloading"
GvDownloading(c) ==
    /\ gv[c].pc = "downloading"
    /\ SetCall(c, [gv[c] EXCEPT !.pc = "download"])
    /\ active_generation' = [active_generation EXCEPT !.status = "downloading"]
    /\ UNCHANGED latest_video_path
    /\ GvFrame

\* mutant: latest_video_path is set whatever the download gave
GvDownload_AlwaysLatest(c, ok) ==
    /\ gv[c].pc = "download"
    /\ SetCall(c, [gv[c] EXCEPT !.downloads = @ + 1,
                                !.pc = IF ok THEN "dl_ok" ELSE "dl_failed"])
    /\ latest_video_path' = gv[c].path
    /\ UNCHANGED active_generation
    /\ GvFrame

\* _download_video: one attempt; on success latest_video_path is the path
GvDownload(c, ok) ==
    /\ gv[c].pc = "download"
    /\ SetCall(c, [gv[c] EXCEPT !.downloads = @ + 1,
                                !.pc = IF ok THEN "dl_ok" ELSE "dl_failed"])
    /\ latest_video_path' = IF ok THEN gv[c].path ELSE latest_video_path
    /\ UNCHANGED active_generation
    /\ GvFrame

\* the record is updated to inactive/"done" with the path, which is returned
GvDone(c) ==
    /\ gv[c].pc = "dl_ok"
    /\ SetCall(c, Return(gv[c], gv[c].path))
    /\ active_generation' =
           [active_generation EXCEPT !.active = FALSE, !.status = "done",
                                     !.video_path = gv[c].path]
    /\ UNCHANGED latest_video_path
    /\ GvFrame

\* the download failed: inactive/"error", None is returned
GvDownloadFailed(c) ==
    /\ gv[c].pc = "dl_failed"
    /\ SetCall(c, Return(gv[c], NoPath))
    /\ active_generation' =
           [active_generation EXCEPT !.active = FALSE, !.status = "error",
                                     !.error = "download_failed"]
    /\ UNCHANGED latest_video_path
    /\ GvFrame

\* the caller has the result
GvReturn(c) ==
    /\ gv[c].pc = "done"
    /\ SetCall(c, NoCall)
    /\ UNCHANGED <<latest_video_path, active_generation>>
    /\ GvFrame

\* str.lower on the statuses of the model
LowerStatus(st) ==
    CASE st = "DONE" -> "done"
      [] st = "Generating" -> "generating"
      [] OTHER -> st

\* get_generation_status: mapping.get(status, 50)
mapping(st) ==
    CASE st = "idle" -> 0
      [] st = "starting" -> 5
      [] st = "queued" -> 10
      [] st = "waiting" -> 15
      [] st = "active" -> 30
      [] st = "generating" -> 70
      [] st = "completed" -> 85
      [] st = "downloading" -> 90
      [] st = "done" -> 100
      [] st = "timeout" -> 100
      [] st = "error" -> 100
      [] OTHER -> 50

\* mutant: the status is looked up as it is
Progress_NoLower(st) == mapping(IF st = "" THEN "idle" ELSE st)

\* get_generation_status: (state.get("status") or "idle").lower(), looked up
Progress(st) == mapping(LowerStatus(IF st = "" THEN "idle" ELSE st))

\* get_generation_status: a copy of the record with its progress
GetGenerationStatus ==
    /\ report' = [status |-> active_generation.status,
                  progress |-> Progress(active_generation.status),
                  active |-> active_generation.active]
    /\ UNCHANGED <<ctl, loop_pc, loc, proc, recent_donations, gen_tasks, now, aux,
                   fetchVars, stat, api_key, generation_count, latest_video_path,
                   active_generation, gv>>

GenerateVideo(c) ==
    \/ \E inp \in GvInputs : GvCall(c, inp)
    \/ GvCount(c)
    \/ GvName(c)
    \/ GvStarting(c)
    \/ GvPrompt(c)
    \/ \E ok \in BOOLEAN : GvStart(c, ok)
    \/ \E st \in ProgressStatuses : GvPoll(c, st)
    \/ \E a \in WaitAnswers : GvWaitEnd(c, a)
    \/ GvWaitFailed(c)
    \/ GvDownloading(c)
    \/ \E ok \in BOOLEAN : GvDownload(c, ok)
    \/ GvDone(c)
    \/ GvDownloadFailed(c)
    \/ GvReturn(c)

(***************************************************************************)
(* SpecGen: a generator with or without an API key and one caller at a     *)
(* time, as the unit tests drive it: calls of generate_video one after     *)
(* another while the clock runs.                                           *)
(***************************************************************************)
InitGen ==
    /\ PollerInit
    /\ \E k \in BOOLEAN : GeneratorInit(k)
    /\ cfg_token = ""
    /\ cfg_refresh_token = ""
    /\ cfg_creds = FALSE
    /\ now = 0
    /\ AuxInit

NextGen ==
    \/ GenerateVideo(1)
    \/ GetGenerationStatus
    \/ Tick

SpecGen == InitGen /\ [][NextGen]_vars

(***************************************************************************)
(* SpecE2E: the poller with one loop thread and the generator behind it.   *)
(* The generation thread of task i (_gen) runs generate_video as caller i  *)
(* and takes its result.  The provider hands out one qualifying donation   *)
(* and test donations that push it out of the processed set.               *)
(***************************************************************************)
E2EDonations ==
    {Fed(1, Num(donation_threshold_rub), "RUB")}
    \cup {[Fed(i, Num(donation_threshold_rub), "RUB") EXCEPT !.is_test = "truthy"] :
             i \in Ids \ {1}}

\* _gen: video_path = self.video_generator.generate_video(donation_info,
\* amount_rub), with the arguments the poller builds (lines 291-299)
GenCall(i) ==
    /\ gen_tasks[i].st = "running"
    /\ GvCall(i, "ok")

\* the steps of the call of caller c between its entry and its return
GvSteps(c) ==
    \/ GvCount(c)
    \/ GvName(c)
    \/ GvStarting(c)
    \/ GvPrompt(c)
    \/ \E ok \in BOOLEAN : GvStart(c, ok)
    \/ \E st \in ProgressStatuses : GvPoll(c, st)
    \/ \E a \in WaitAnswers : GvWaitEnd(c, a)
    \/ GvWaitFailed(c)
    \/ GvDownloading(c)
    \/ \E ok \in BOOLEAN : GvDownload(c, ok)
    \/ GvDone(c)
    \/ GvDownloadFailed(c)

\* _gen has the result of its call: without a path the attempt is over, with
\* one `self.total_videos_generated += 1` reads the counter
GenResult(i) ==
    /\ gen_tasks[i].st = "running"
    /\ gv[i].pc = "done"
    /\ IF gv[i].result = NoPath
       THEN SetTask(i, "failed")
       ELSE gen_tasks' = [gen_tasks EXCEPT ![i].st = "counting",
                                          ![i].loaded = total_videos_generated]
    /\ UNCHANGED <<ctl, loop_pc, loc, proc, recent_donations, now, aux, fetchVars, stat,
                   vgen>>

NextE2E ==
    \/ Loop(1, E2EDonations)
    \/ \E i \in 1 .. Len(gen_tasks) :
          GenStart(i) \/ GenCall(i) \/ GvSteps(i) \/ GenResult(i) \/ GenCount(i)

SpecE2E == InitConc /\ [][NextE2E]_vars

(***************************************************************************)
(* CurrencyConverter: convert_to_rub over the in-memory rate cache.  The   *)
(* clock is time.time() in minutes; it can advance between the lookup and  *)
(* the caching of a fetched rate.                                          *)
(***************************************************************************)
\* the from_currency arguments; "" stands for an empty or missing currency
InputCurrencies == {"", "RUB", "usd", "USD", "EUR"}

\* (from_currency or "RUB").upper()
Upper(c) ==
    IF c = "" THEN "RUB" ELSE IF c = "usd" THEN "USD" ELSE c

\* the exchange-rate API fails: status other than 200, no rate, an exception
NoRate == 0 - 1

\* convert_to_rub up to the call of _get_exchange_rate; RUB is returned as is
ConvertCall(amount, ccy) ==
    /\ cc.pc \in {"idle", "done"}
    /\ cc' = IF Upper(ccy) = "RUB"
             THEN [NoConversion EXCEPT !.pc = "done", !.amount = amount,
                                       !.result = amount]
             ELSE [NoConversion EXCEPT !.pc = "lookup", !.amount = amount,
                                       !.key = <<Upper(ccy), "RUB">>]
    /\ UNCHANGED <<cache, clock>>

\* mutant: a cached rate never expires
CachedHit_NoExpiry(entry, t) == entry # NoEntry

\* _get_cached_rate: there is an entry and now < expires_at
CachedHit(entry, t) == entry # NoEntry /\ t < entry.expires_at

\* _get_cached_rate and what _get_exchange_rate and convert_to_rub do with a
\* hit; an expired entry is deleted and the call goes on to the API
GetCachedRate ==
    /\ cc.pc = "lookup"
    /\ LET entry == cache[cc.key]
       IN IF CachedHit(entry, clock)
          THEN /\ cc' = [cc EXCEPT !.pc = "done", !.at = clock, !.entry0 = entry,
                                   !.rate = entry.rate,
                                   !.result = cc.amount * entry.rate]
               /\ UNCHANGED cache
          ELSE /\ cc' = [cc EXCEPT !.pc = "fetch", !.at = clock, !.entry0 = entry]
               /\ cache' = [cache EXCEPT ![cc.key] = NoEntry]
    /\ UNCHANGED clock

\* _fetch_exchange_rate_from_api with the API's answer, _cache_exchange_rate
\* on a rate, and the product convert_to_rub returns
FetchRate(answer) ==
    /\ cc.pc = "fetch"
    /\ IF answer = NoRate
       THEN /\ cc' = [cc EXCEPT !.pc = "done", !.gets = cc.gets + 1,
                                !.result = NoRate]
            /\ UNCHANGED cache
       ELSE /\ cc' = [cc EXCEPT !.pc = "done", !.gets = cc.gets + 1,
                                !.rate = answer, !.cached_at = clock,
                                !.result = cc.amount * answer]
            /\ cache' = [cache EXCEPT ![cc.key] =
                            [rate |-> answer,
                             expires_at |-> clock + cache_ttl_minutes]]
    /\ UNCHANGED clock

\* time passes
ClockTick ==
    /\ clock < MaxClock
    /\ clock' = clock + 1
    /\ UNCHANGED <<cache, cc>>

ConverterFrame ==
    UNCHANGED <<ctl, loop_pc, loc, proc, recent_donations, gen_tasks, now,
                fetchVars, stat, vgen, widget, reply, wfc, limiter>>

NextCache ==
    \/ \E a \in Amounts, c \in InputCurrencies : ConvertCall(a, c) /\ ConverterFrame
    \/ GetCachedRate /\ ConverterFrame
    \/ \E r \in Rates \cup {NoRate} : FetchRate(r) /\ ConverterFrame
    \/ ClockTick /\ ConverterFrame

SpecCache == Init /\ [][NextCache]_vars

(***************************************************************************)
(* The OBS widget and the video routes.                                    *)
(***************************************************************************)
\* os.path.exists(os.path.join(videos_directory, filename))
Exists(filename) == \E i \in DOMAIN disk : disk[i] = filename

\* int(time.time()), in seconds
IntTime == wall \div 2

\* mutant: the name is not checked
resolve_video_path_Unchecked(filename) ==
    IF ~Exists(filename) THEN <<>> ELSE filename

\* OBSWidget.resolve_video_path: the name of the file, <<>> for None
resolve_video_path(filename) ==
    IF ~is_safe_video_filename(filename) THEN <<>>
    ELSE IF ~Exists(filename) THEN <<>>
    ELSE filename

\* GET /videos/{filename}
serve_video(filename) ==
    /\ web' = IF resolve_video_path(filename) = <<>>
              THEN [NoAnswer EXCEPT !.op = "serve", !.name = filename, !.code = 404]
              ELSE [NoAnswer EXCEPT !.op = "serve", !.name = filename, !.code = 200,
                                    !.effect = "read",
                                    !.file = resolve_video_path(filename)]
    /\ UNCHANGED <<disk, play_request, wall>>

\* the directory without the file
Removed(filename) == SelectSeq(disk, LAMBDA f : f # filename)

\* DELETE /api/delete-video/{filename}
delete_video(filename) ==
    IF ~is_safe_video_filename(filename)
    THEN /\ web' = [NoAnswer EXCEPT !.op = "delete", !.name = filename, !.code = 400]
         /\ UNCHANGED <<disk, play_request, wall>>
    ELSE IF ~Exists(filename)
    THEN /\ web' = [NoAnswer EXCEPT !.op = "delete", !.name = filename, !.code = 404]
         /\ UNCHANGED <<disk, play_request, wall>>
    ELSE /\ disk' = Removed(filename)
         /\ web' = [NoAnswer EXCEPT !.op = "delete", !.name = filename, !.code = 200,
                                    !.effect = "deleted", !.file = filename]
         /\ UNCHANGED <<play_request, wall>>

\* POST /api/play-in-obs with the payload's filename and url
play_in_obs(filename, url) ==
    LET f == PayloadFilename(filename, url)
        answer == [NoAnswer EXCEPT !.op = "play",
                                   !.name = IF Strip(filename) = <<>>
                                            THEN f ELSE filename]
    IN IF f = <<>> \/ ~is_safe_video_filename(f)
       THEN /\ web' = [answer EXCEPT !.code = 400]
            /\ UNCHANGED <<disk, play_request, wall>>
       ELSE IF resolve_video_path(f) = <<>>
       THEN /\ web' = [answer EXCEPT !.code = 404]
            /\ UNCHANGED <<disk, play_request, wall>>
       ELSE /\ play_request' = [filename |-> f, ts |-> IntTime]
            /\ web' = [answer EXCEPT !.code = 200, !.effect = "queued", !.file = f]
            /\ UNCHANGED <<disk, wall>>

\* _list_videos: the .mp4 files of the directory with a safe name, newest first
RECURSIVE Reversed(_)
Reversed(s) == IF s = <<>> THEN s ELSE Append(Reversed(Tail(s)), Head(s))

list_videos ==
    Reversed(SelectSeq(disk, LAMBDA f :
        /\ ~Contains(f, <<"/">>)
        /\ EndsWith(f, <<".", "m", "p", "4">>)
        /\ is_safe_video_filename(f)))

\* mutant: the request expires a second early
RequestExpired_Early(req) == req.ts # 0 /\ wall - 2 * req.ts > 14

\* req_ts and (time.time() - req_ts) > ttl_seconds, with ttl_seconds = 8
RequestExpired(req) == req.ts # 0 /\ wall - 2 * req.ts > 2 * ttl_seconds

\* the answer of get_latest_video_data without a request to serve
Latest(answer) ==
    IF list_videos = <<>>
    THEN [answer EXCEPT !.code = 200, !.requested = "none"]
    ELSE [answer EXCEPT !.code = 200, !.requested = "false", !.effect = "read",
                        !.file = list_videos[1]]

\* OBSWidget.get_latest_video_data
get_latest_video_data ==
    LET req == play_request
        answer == [NoAnswer EXCEPT !.op = "latest", !.name = req.filename,
                                   !.at = wall]
    IN /\ IF req # NoRequest /\ RequestExpired(req)
          THEN /\ play_request' = NoRequest
               /\ web' = Latest(answer)
          ELSE /\ UNCHANGED play_request
               /\ web' = IF /\ req # NoRequest
                            /\ req.filename # <<>>
                            /\ is_safe_video_filename(req.filename)
                            /\ Exists(req.filename)
                         THEN [answer EXCEPT !.code = 200, !.requested = "true",
                                             !.effect = "read",
                                             !.file = req.filename]
                         ELSE Latest(answer)
       /\ UNCHANGED <<disk, wall>>

\* half a second passes
WallTick ==
    /\ wall < MaxWall
    /\ wall' = wall + 1
    /\ UNCHANGED <<disk, play_request, web>>

WidgetFrame ==
    UNCHANGED <<ctl, loop_pc, loc, proc, recent_donations, gen_tasks, now,
                fetchVars, stat, vgen, converter, reply, wfc, limiter>>

\* the routes that take a name, with every name, at one moment
NextWidget ==
    \/ \E f \in Names : serve_video(f) /\ WidgetFrame
    \/ \E f \in Names : delete_video(f) /\ WidgetFrame
    \/ \E f \in Names, u \in Urls : play_in_obs(f, u) /\ WidgetFrame
    \/ get_latest_video_data /\ WidgetFrame

SpecWidget == Init /\ [][NextWidget]_vars

\* the videos played
Played == {Clip, V2}

\* play requests and the widget's polls while time passes
NextPlay ==
    \/ \E f \in Played : play_in_obs(f, <<>>) /\ WidgetFrame
    \/ \E f \in Played : delete_video(f) /\ WidgetFrame
    \/ get_latest_video_data /\ WidgetFrame
    \/ WallTick /\ WidgetFrame

SpecPlay == Init /\ [][NextPlay]_vars

(***************************************************************************)
(* SpecApi: the routes that write the tokens and start or stop the poller, *)
(* on a server with the OAuth client configured, next to the loop threads. *)
(* A route is one step: the requests are answered one after the other.     *)
(***************************************************************************)
ApiDonations == {Fed(1, Num(donation_threshold_rub), "RUB")}

\* expires_in of the token response: an integer, a text int() rejects, absent
ExpiresVals == {"int", "text", "none"}

InitApi ==
    /\ PollerInit
    /\ GeneratorInit(TRUE)
    /\ cfg_token = ""
    /\ cfg_refresh_token = ""
    /\ cfg_creds = TRUE
    /\ now = 0
    /\ AuxInit

ApiFrame ==
    UNCHANGED <<loc, proc, recent_donations, gen_tasks, now, converter, widget,
                wfc, limiter, cfg_creds, fetch, stat, vgen>>

Answer(op, success) == reply' = [op |-> op, success |-> success]

\* POST /api/start-polling
api_start_polling ==
    /\ IF cfg_token = ""
       THEN /\ Answer("start", FALSE)
            /\ UNCHANGED <<is_running, loop_pc>>
       ELSE /\ PollerStart(LoopIds, api_token)
            /\ Answer("start", TRUE)
    /\ UNCHANGED <<api_token, client_api_token, cfg_token, cfg_refresh_token>>
    /\ ApiFrame

\* POST /api/stop-polling
api_stop_polling ==
    /\ is_running' = FALSE
    /\ Answer("stop", TRUE)
    /\ UNCHANGED <<api_token, client_api_token, cfg_token, cfg_refresh_token,
                   loop_pc>>
    /\ ApiFrame

\* POST /api/access-token: the token is stored in the config and the poller,
\* which is started with a token and stopped without
set_access_token(tok) ==
    /\ cfg_token' = tok
    /\ api_token' = tok
    /\ client_api_token' = tok
    /\ IF tok # ""
       THEN PollerStart(LoopIds, tok)
       ELSE is_running' = FALSE /\ UNCHANGED loop_pc
    /\ Answer("token", TRUE)
    /\ UNCHANGED cfg_refresh_token
    /\ ApiFrame

\* POST /api/da/disconnect
da_disconnect ==
    /\ cfg_token' = ""
    /\ cfg_refresh_token' = ""
    /\ api_token' = ""
    /\ client_api_token' = ""
    /\ is_running' = FALSE
    /\ Answer("disconnect", TRUE)
    /\ UNCHANGED loop_pc
    /\ ApiFrame

\* GET /api/da/oauth/callback with the answer of the token exchange: the
\* access token goes to the config first; int(expires_in) can raise before
\* the poller is given the token
da_oauth_callback(access, refresh, expires) ==
    /\ IF ~cfg_creds \/ access = ""
       THEN /\ Answer("callback", FALSE)
            /\ UNCHANGED <<ctl, loop_pc, cfg_token, cfg_refresh_token>>
       ELSE /\ cfg_token' = access
            /\ cfg_refresh_token' = IF refresh # "" THEN refresh
                                    ELSE cfg_refresh_token
            /\ IF expires = "text"
               THEN /\ Answer("callback", FALSE)
                    /\ UNCHANGED <<ctl, loop_pc>>
               ELSE /\ api_token' = access
                    /\ client_api_token' = access
                    /\ PollerStart(LoopIds, access)
                    /\ Answer("callback", TRUE)
    /\ ApiFrame

Routes ==
    \/ api_start_polling
    \/ api_stop_polling
    \/ \E tok \in Tokens : set_access_token(tok)
    \/ da_disconnect
    \/ \E access \in Tokens, refresh \in {"", "rtoken"}, expires \in ExpiresVals :
          da_oauth_callback(access, refresh, expires)

NextApi ==
    \/ Routes
    \/ \E t \in LoopIds : Loop(t, ApiDonations)

SpecApi == InitApi /\ [][NextApi]_vars

(***************************************************************************)
(* AIMLClient.wait_for_completion.  Time is counted from start_time in     *)
(* units of the shortest request; a request takes time, at most its        *)
(* timeout, and the thread keeps running.                                  *)
(***************************************************************************)
\* the max_wait_time and poll_interval arguments
WaitTimes == 0 .. MaxWait

Intervals == {0, 1}

\* progress_callback: None, one that returns, one that raises
Callbacks == {"none", "returns", "raises"}

\* how long a request can take
Durations == {1, 2}

\* the statuses that keep the loop waiting
WaitingStatuses == {"waiting", "active", "queued", "generating"}

\* the answers to a poll: the HTTP status, "status" and whether video.url is
\* there; http 0 is a body that is not JSON
PollAnswers ==
    {[http |-> h, status |-> "none", url |-> FALSE] : h \in {0, 404, 500}}
    \cup {[http |-> 200, status |-> s, url |-> FALSE] :
             s \in {"queued", "generating", "completed", "failed", "none"}}
    \cup {[http |-> 200, status |-> "completed", url |-> TRUE]}

\* the call: start_time = time.time()
WaitCall(mw, pi, cb) ==
    /\ wfc.pc \in {"idle", "done"}
    /\ wfc' = [NoWait EXCEPT !.pc = "check", !.max_wait_time = mw,
                             !.poll_interval = pi, !.cb = cb]

\* while time.time() - start_time < max_wait_time, and the timeout after it
WaitCheck ==
    /\ wfc.pc = "check"
    /\ wfc' = IF wfc.elapsed < wfc.max_wait_time
              THEN [wfc EXCEPT !.pc = "poll", !.polled_at = wfc.elapsed]
              ELSE [wfc EXCEPT !.pc = "done", !.result = "none"]

\* mutant: an exception of the callback leaves the loop
AfterCallback_Propagates(w) ==
    IF w.cb = "raises" THEN [w EXCEPT !.pc = "done", !.result = "none"]
    ELSE [w EXCEPT !.poll_cbs = w.poll_cbs + 1]

\* the callback of a poll, inside its own try
AfterCallback(w) ==
    IF w.cb = "none" THEN w ELSE [w EXCEPT !.poll_cbs = w.poll_cbs + 1]

\* what the loop does with the status of an answer below 400
AfterStatus(w, a) ==
    IF w.pc = "done" THEN w
    ELSE IF a.status \in WaitingStatuses
    THEN [w EXCEPT !.pc = "check", !.elapsed = w.elapsed + w.poll_interval]
    ELSE IF a.status = "completed" /\ a.url
    THEN [w EXCEPT !.pc = "done", !.result = "url"]
    ELSE [w EXCEPT !.pc = "done", !.result = "none"]

\* one request and the rest of the loop body
WaitPoll(d, a) ==
    /\ wfc.pc = "poll"
    /\ LET w == [wfc EXCEPT !.elapsed = wfc.elapsed + d, !.polls = wfc.polls + 1,
                            !.last = a]
       IN wfc' = IF a.http >= 400
                 THEN [w EXCEPT !.pc = "done", !.result = "none",
                                !.refused = w.refused + 1]
                 ELSE IF a.http = 0
                 THEN [w EXCEPT !.pc = "done", !.result = "none"]
                 ELSE AfterStatus(AfterCallback(w), a)

WaitStep == WaitCheck \/ \E d \in Durations, a \in PollAnswers : WaitPoll(d, a)

WaitFrame ==
    UNCHANGED <<ctl, loop_pc, loc, proc, recent_donations, gen_tasks, now,
                fetchVars, stat, vgen, converter, widget, reply, limiter>>

NextWait ==
    \/ \E mw \in WaitTimes, pi \in Intervals, cb \in Callbacks :
          WaitCall(mw, pi, cb) /\ WaitFrame
    \/ WaitCheck /\ WaitFrame
    \/ \E d \in Durations, a \in PollAnswers : WaitPoll(d, a) /\ WaitFrame

\* the thread is scheduled and every request returns
FairWait == WF_vars(WaitStep /\ WaitFrame)

SpecWait == Init /\ [][NextWait]_vars /\ FairWait

(***************************************************************************)
(* The rate limit of the poller.  _polling_loop sleeps until               *)
(* min_request_interval has passed since last_request_time and then calls  *)
(* _fetch_donations; test_api_connection calls _fetch_donations directly.  *)
(* _fetch_donations stamps last_request_time and calls                     *)
(* DonationAlertsClient.fetch_donations, which sends one GET and, after a  *)
(* 401 and a successful refresh, a second one.  The token is configured.   *)
(***************************************************************************)
ListStatuses == {200, 401, 429, 500}

SetRl(th, pc, wake) == rl' = [rl EXCEPT ![th] = [pc |-> pc, wake |-> wake]]

Request(th) == sent' = Append(sent, [at |-> mono, by |-> th])

\* _polling_loop: the rate limiting before the fetch
RateLimit ==
    /\ rl["loop"].pc = "while"
    /\ LET time_since_last_request == mono - last_request_time
       IN IF time_since_last_request < min_request_interval
          THEN SetRl("loop", "sleep",
                     mono + (min_request_interval - time_since_last_request))
          ELSE SetRl("loop", "fetch", 0)
    /\ UNCHANGED <<last_request_time, sent, mono>>

\* time.sleep returns: after the rate limit, or after the 429 back-off
Wake(th) ==
    /\ rl[th].pc \in {"sleep", "backoff"}
    /\ mono >= rl[th].wake
    /\ SetRl(th, IF rl[th].pc = "sleep" THEN "fetch" ELSE "return", 0)
    /\ UNCHANGED <<last_request_time, sent, mono>>

\* _fetch_donations up to the first GET of fetch_donations
FetchDonations(th) ==
    /\ rl[th].pc = "fetch"
    /\ Len(sent) < MaxSent
    /\ last_request_time' = mono
    /\ Request(th)
    /\ SetRl(th, "get", 0)
    /\ UNCHANGED mono

\* fetch_donations after the first response: on a 401 with a successful
\* refresh the GET is sent again, a 429 sleeps, anything else returns
FirstAnswer(th, status, refreshed) ==
    /\ rl[th].pc = "get"
    /\ IF status = 401 /\ refreshed
       THEN /\ Len(sent) < MaxSent
            /\ Request(th)
            /\ SetRl(th, "retry", 0)
       ELSE /\ SetRl(th, IF status = 429 THEN "backoff" ELSE "return",
                     IF status = 429 THEN mono + backoff_seconds ELSE 0)
            /\ UNCHANGED sent
    /\ UNCHANGED <<last_request_time, mono>>

\* the response to the second GET
RetryAnswer(th) ==
    /\ rl[th].pc = "retry"
    /\ SetRl(th, "return", 0)
    /\ UNCHANGED <<last_request_time, sent, mono>>

\* _fetch_donations returns: the loop goes round, the connection test ends
FetchDonationsReturn(th) ==
    /\ rl[th].pc = "return"
    /\ SetRl(th, IF th = "loop" THEN "while" ELSE "idle", 0)
    /\ UNCHANGED <<last_request_time, sent, mono>>

\* test_api_connection up to its call of _fetch_donations
test_api_connection ==
    /\ rl["test"].pc = "idle"
    /\ SetRl("test", "fetch", 0)
    /\ UNCHANGED <<last_request_time, sent, mono>>

MonoTick ==
    /\ mono < MaxMono
    /\ mono' = mono + 1
    /\ UNCHANGED <<last_request_time, sent, rl>>

LimiterFrame ==
    UNCHANGED <<ctl, loop_pc, loc, proc, recent_donations, gen_tasks, now,
                fetchVars, stat, vgen, converter, widget, reply, wfc>>

NextRate ==
    \/ RateLimit /\ LimiterFrame
    \/ \E th \in Fetchers : Wake(th) /\ LimiterFrame
    \/ \E th \in Fetchers : FetchDonations(th) /\ LimiterFrame
    \/ \E th \in Fetchers, s \in ListStatuses, r \in BOOLEAN :
          FirstAnswer(th, s, r) /\ LimiterFrame
    \/ \E th \in Fetchers : RetryAnswer(th) /\ LimiterFrame
    \/ \E th \in Fetchers : FetchDonationsReturn(th) /\ LimiterFrame
    \/ test_api_connection /\ LimiterFrame
    \/ MonoTick /\ LimiterFrame

SpecRate == Init /\ [][NextRate]_vars

(***************************************************************************)
(* SpecStop: a started poller with one loop thread, its generation         *)
(* threads, and stop_polling at any moment.  FairStop: a generation thread *)
(* that can take a step eventually takes one (the threads are scheduled by *)
(* the interpreter, and generate_video returns after a bounded wait).      *)
(***************************************************************************)
GenStep(i) ==
    /\ i \in DOMAIN gen_tasks
    /\ (GenStart(i) \/ GenFinish(i) \/ GenCount(i))

NextStop ==
    \/ stop_polling
    \/ Loop(1, ConcDonations)
    \/ Gen

FairStop == \A i \in 1 .. MaxTasks : WF_vars(GenStep(i))

SpecStop == InitConc /\ [][NextStop]_vars /\ FairStop

(***************************************************************************)
(* SpecTok: the token as the settings route sets it (configuration, poller *)
(* and client together) and fetch_donations with its 401 branch, on a      *)
(* configuration that has the OAuth client credentials and a refresh       *)
(* token.                                                                  *)
(***************************************************************************)
InitTok ==
    /\ PollerInit
    /\ GeneratorInit(TRUE)
    /\ cfg_token = ""
    /\ cfg_refresh_token = "rtoken"
    /\ cfg_creds = TRUE
    /\ now = 0
    /\ AuxInit

NextTok ==
    \/ \E tok \in Tokens : set_access_token(tok)
    \/ FetchCall
    \/ \E st \in Statuses, b \in Bodies : FetchGet1(st, b)
    \/ \E a \in PostFailures : FetchRefreshFail(a)
    \/ \E a \in ClientTokens \ {""}, r \in RefreshTokens : FetchRefreshOk(a, r)
    \/ \E a \in ClientTokens \ {""}, r \in RefreshTokens : FetchRefreshBadExpiry(a, r)
    \/ \E st \in Statuses, b \in Bodies : FetchGet2(st, b)
    \/ FetchReturn

SpecTok == InitTok /\ [][NextTok]_vars

(***************************************************************************)
(* SpecGen2: a generator with an API key and two callers of generate_video *)
(* on their own threads (two _gen threads of the poller, or one of them    *)
(* and the thread of POST /api/generate-video), within one second of the   *)
(* clock.                                                                  *)
(***************************************************************************)
NextGen2 == \E c \in CallIds : GenerateVideo(c)

SpecGen2 == Init /\ [][NextGen2]_vars

(***************************************************************************)
(* SpecTasks: the generation threads of one batch.  The poller has         *)
(* processed a batch of NumTasks qualifying donations with the identifiers *)
(* 1 .. NumTasks, started a _gen thread for each, and was stopped; its     *)
(* loop thread has ended.  The processed set and the recent buffer hold    *)
(* what their caps leave of the batch.  The threads run side by side.      *)
(***************************************************************************)
BatchIds == [i \in 1 .. NumTasks |-> i]

\* the last n elements of s
LastOf(s, n) == IF Len(s) <= n THEN s ELSE SubSeq(s, Len(s) - n + 1, Len(s))

InitTasks ==
    /\ api_token = "tok"
    /\ client_api_token = "tok"
    /\ is_running = FALSE
    /\ loop_pc = [t \in LoopIds |-> "none"]
    /\ cur = [t \in LoopIds |-> NoDonation]
    /\ branch = [t \in LoopIds |-> "none"]
    /\ amount_rub = [t \in LoopIds |-> 0]
    /\ processed_order = LastOf(BatchIds, ProcessedCap)
    /\ processed_donations = {processed_order[k] : k \in DOMAIN processed_order}
    /\ processed_lock = 0
    /\ evicted = {BatchIds[k] : k \in 1 .. NumTasks} \ processed_donations
    /\ recent_donations = LastOf(BatchIds, RecentCap)
    /\ gen_tasks = [i \in 1 .. NumTasks |->
                       [id |-> i, amount_rub |-> donation_threshold_rub,
                        st |-> "spawned", loaded |-> 0]]
    /\ fetch = NoFetch
    /\ total_donations_processed = NumTasks
    /\ total_videos_generated = 0
    /\ api_errors = 0
    /\ loaded = [t \in LoopIds |-> 0]
    /\ converted = [t \in LoopIds |-> NotConverted]
    /\ GeneratorInit(TRUE)
    /\ cfg_token = "tok"
    /\ cfg_refresh_token = ""
    /\ cfg_creds = FALSE
    /\ now = 0
    /\ AuxInit

SpecTasks == InitTasks /\ [][Gen]_vars

(***************************************************************************)
(* The claims.  The predicates Claim... say what a claim's words say       *)
(* about a donation; they do not use the operators that model the code.    *)
(***************************************************************************)
Count(seq, x) == Cardinality({i \in DOMAIN seq : seq[i] = x})
Range(seq) == {seq[i] : i \in DOMAIN seq}
TaskIds == {gen_tasks[i].id : i \in DOMAIN gen_tasks}

\* a test donation in the claims' words: one of the four fields is truthy, or
\* alert_type or type is "test" in any letter case
ClaimIsTest(d) ==
    \/ \E v \in {d.is_test, d.isTest, d.test, d.testing} : v = "truthy"
    \/ \E s \in {d.alert_type, d.type} : s \in {"test", "TEST"}

\* a stale donation in the claims' words: the timestamp cannot be parsed, or
\* it lies more than 5 minutes before the clock
ClaimIsStale(d, nw) ==
    \/ d.created_at.fmt # "ts"
    \/ d.created_at.t < nw - FreshWindow

\* loop thread t is back in the for loop after a run on its donation
RunDone(t) == loop_pc[t] = "for" /\ cur[t].id # 0

\* C1: in one run on a donation that has an identifier, is not a test, is
\* fresh and whose converted amount reaches the threshold, exactly one
\* generation task is started, and whenever a generation task exists, started
\* or not, its identifier is in the processed set.
C1_QualifyingDispatchedOnceAfterMark ==
    /\ Len(gen_tasks) <= 1
    /\ \A i \in DOMAIN gen_tasks : gen_tasks[i].id \in processed_donations
    /\ ( /\ RunDone(1)
         /\ ~ClaimIsTest(cur[1])
         /\ ~ClaimIsStale(cur[1], now)
         /\ cur[1].amount.num
         /\ amount_rub[1] >= donation_threshold_rub )
       => /\ Len(gen_tasks) = 1
          /\ gen_tasks[1].id = cur[1].id
          /\ gen_tasks[1].amount_rub = amount_rub[1]

C1_Witness ==
    /\ RunDone(1)
    /\ cur[1].currency = "USD"
    /\ cur[1].amount.v < donation_threshold_rub
    /\ amount_rub[1] >= donation_threshold_rub
    /\ Len(gen_tasks) = 1
    /\ gen_tasks[1].st = "running"
    /\ cur[1].id \in processed_donations

\* C2: while no identifier has been evicted, no two generation tasks carry
\* the same identifier, also with two loop threads running the pipeline.
C2_NoDuplicateDispatchAcrossLoops ==
    \A i, j \in DOMAIN gen_tasks :
        (i # j /\ gen_tasks[i].id = gen_tasks[j].id) => gen_tasks[i].id \in evicted

\* C3 as stated: with one polling loop, no two generation tasks ever carry the
\* same identifier, eviction or not.
C3_NeverTwicePerId ==
    \A i, j \in DOMAIN gen_tasks : i # j => gen_tasks[i].id # gen_tasks[j].id

\* C3 amended: with one polling loop, two generation tasks carry the same
\* identifier only if that identifier was evicted from the processed set.
C3_OncePerIdUntilEvicted ==
    \A i, j \in DOMAIN gen_tasks :
        (i # j /\ gen_tasks[i].id = gen_tasks[j].id) => gen_tasks[i].id \in evicted

\* the provider returned a dispatched identifier again and the loop skipped it
C3_Witness ==
    /\ loop_pc[1] = "for"
    /\ Len(gen_tasks) = 1
    /\ cur[1].id = gen_tasks[1].id
    /\ branch[1] = "none"
    /\ cur[1] = Fed(cur[1].id, Num(donation_threshold_rub), "RUB")
    /\ evicted = {}

\* C4: after a run on a donation with an identifier, the identifier is in the
\* processed set and occurs exactly once in the order list.
C4_MarkedOnceAfterRun ==
    RunDone(1) =>
        /\ cur[1].id \in processed_donations
        /\ Count(processed_order, cur[1].id) = 1

\* C5: for a test donation, here one with a well-formed amount, no generation
\* task is started, and after the run its identifier is in the processed set.
C5_TestNeverGenerates ==
    (ClaimIsTest(cur[1]) /\ cur[1].amount.num) =>
        /\ gen_tasks = <<>>
        /\ RunDone(1) => cur[1].id \in processed_donations

\* C6: for a donation whose timestamp cannot be parsed or is more than 5
\* minutes old, no generation task is started whatever the amount, and after
\* the run its identifier is in the processed set.
C6_StaleNeverGenerates ==
    ClaimIsStale(cur[1], now) =>
        /\ gen_tasks = <<>>
        /\ RunDone(1) => cur[1].id \in processed_donations

C6_Witness ==
    /\ RunDone(1)
    /\ cur[1].created_at = Ts(now - FreshWindow - 1)
    /\ ~ClaimIsTest(cur[1])
    /\ cur[1].amount = Num(donation_threshold_rub)
    /\ cur[1].currency = "RUB"
    /\ cur[1].id \in processed_donations
    /\ gen_tasks = <<>>

\* the list seq after id is appended and the oldest entries beyond cap are dropped
FifoInsert(seq, id, cap) ==
    LET a == Append(seq, id)
        k == IF Len(a) > cap THEN Len(a) - cap ELSE 0
    IN [list |-> SubSeq(a, k + 1, Len(a)), dropped |-> {a[j] : j \in 1 .. k}]

\* C7: the processed set and its order list never hold more than the cap, and
\* every change of them is the insertion of one identifier with the oldest
\* entries of the list, and only those, removed.
C7_CapAndFifoEviction ==
    [][ /\ Cardinality(processed_donations') <= ProcessedCap
        /\ Len(processed_order') <= ProcessedCap
        /\ (processed_order' # processed_order
              \/ processed_donations' # processed_donations)
           => \E id \in Ids :
                LET f == FifoInsert(processed_order, id, ProcessedCap)
                IN /\ processed_order' = f.list
                   /\ processed_donations' =
                          (processed_donations \cup {id}) \ f.dropped ]_vars

\* two loops are alive and the cap has been exceeded
C7_Witness ==
    /\ \A t \in LoopIds : loop_pc[t] # "none"
    /\ evicted # {}
    /\ Cardinality(processed_donations) = ProcessedCap
    /\ Len(processed_order) = ProcessedCap

\* C8: the order list has no identifier twice, and the identifiers in it are
\* those of the processed set.
C8_ListMatchesSet ==
    /\ \A i, j \in DOMAIN processed_order :
           i # j => processed_order[i] # processed_order[j]
    /\ Range(processed_order) = processed_donations

\* C9: the recent-donations buffer never holds more than the cap, and every
\* change of it appends one donation at the end and drops the oldest entries
\* beyond the cap.
C9_RecentBoundedFifo ==
    [][ /\ Len(recent_donations') <= RecentCap
        /\ recent_donations' # recent_donations
           => \E id \in Ids :
                recent_donations' = FifoInsert(recent_donations, id, RecentCap).list
      ]_vars

\* the buffer is full and a recorded donation has been trimmed from it
C9_Witness ==
    /\ Len(recent_donations) = RecentCap
    /\ \E id \in processed_donations : id \notin Range(recent_donations)

\* C10: in a call of fetch_donations whose first request got a 401, the token
\* is refreshed once; after a successful refresh the request is repeated once
\* with the refreshed token, and a 200 with a donation list makes that list the
\* result while the client's and the configuration's access token are the
\* refreshed one; a failed refresh or a repeated request that is not a 200
\* gives None; there is never a second refresh or a third request.
C10_RefreshOnceRetryOnce ==
    /\ fetch.refreshes <= 1 /\ fetch.posts <= 1 /\ fetch.gets <= 2
    /\ fetch.pc = "get2" => fetch.refreshed # "" /\ client_api_token = fetch.refreshed
    /\ (fetch.pc = "done" /\ fetch.status1 = "401") =>
         /\ fetch.refreshes = 1
         /\ IF fetch.refreshed = ""
            THEN fetch.gets = 1 /\ fetch.result = "None"
            ELSE /\ fetch.gets = 2
                 /\ fetch.bearer2 = fetch.refreshed
                 /\ IF fetch.status2 = "200"
                    THEN /\ fetch.body2 = "list" => fetch.result = "list2"
                         /\ client_api_token = fetch.refreshed
                         /\ cfg_token = fetch.refreshed
                    ELSE fetch.result = "None"

C10_Witness ==
    /\ fetch.pc = "done"
    /\ fetch.status1 = "401"
    /\ fetch.status2 = "200"
    /\ fetch.result = "list2"
    /\ fetch.bearer2 = "new-token"
    /\ client_api_token = "new-token"
    /\ cfg_token = "new-token"

\* the answer that ended the call: that of the repeated GET when there was one
LastStatus == IF fetch.gets = 2 THEN fetch.status2 ELSE fetch.status1
LastBody == IF fetch.gets = 2 THEN fetch.body2 ELSE fetch.body1

\* the call ended on one of the failures the claim lists: no token, a 429,
\* another non-200 status, a network error, or a body that is not JSON
ClaimFetchFailed ==
    /\ fetch.pc = "done"
    /\ \/ fetch.gets = 0
       \/ LastStatus \in {"429", "500", "neterr"}
       \/ LastStatus = "200" /\ LastBody = "malformed"

\* C11 as stated: fetch_donations never raises; with no token, on a 429, on
\* any other non-200 status, on a network error or on a malformed body it
\* returns None and the stored token is the one the call started with.
C11_FailureReturnsNoneTokenKept ==
    /\ fetch.result # "raised"
    /\ ClaimFetchFailed =>
         /\ fetch.result = "None"
         /\ client_api_token = fetch.token0

\* C11 amended: fetch_donations never raises; on each of the listed failures
\* it returns None; a 429 to the first request is followed by one back-off
\* and no further request; the stored token is the one the call started with
\* unless refresh_access_token stored a new one after a 401, in which case
\* a failure that follows returns None with the new token stored.
C11_FailureReturnsNone ==
    /\ fetch.result # "raised"
    /\ fetch.slept <= 1
    /\ ClaimFetchFailed =>
         /\ fetch.result = "None"
         /\ fetch.status1 = "429" => fetch.gets = 1 /\ fetch.slept = 1
         /\ IF fetch.stored = ""
            THEN client_api_token = fetch.token0
            ELSE client_api_token = fetch.stored /\ fetch.status1 = "401"

C11_Witness ==
    /\ ClaimFetchFailed
    /\ fetch.gets = 1
    /\ fetch.status1 = "200"
    /\ fetch.body1 = "malformed"
    /\ fetch.result = "None"
    /\ client_api_token = "old-token"

\* the loop threads that exist
Alive == {t \in LoopIds : loop_pc[t] # "none"}

\* the loop threads a step creates
Created == {t \in LoopIds : loop_pc[t] = "none" /\ loop_pc'[t] # "none"}

\* C12: start_polling does nothing when the poller is running (no thread is
\* created), leaves the poller stopped when no token is configured, and
\* otherwise sets the poller running and starts exactly one loop thread, at
\* the head of its loop; nothing else starts a thread or sets the poller
\* running.
C12_StartPolling ==
    [][ /\ is_running => Created = {}
        /\ api_token = "" => Created = {} /\ (is_running' => is_running)
        /\ (~is_running /\ is_running') =>
              /\ api_token # ""
              /\ Cardinality(Created) = 1
              /\ \A t \in Created : loop_pc'[t] = "while"
        /\ Created # {} => ~is_running /\ is_running' ]_vars

C12_Witness ==
    /\ is_running
    /\ api_token = "tok"
    /\ loop_pc = [t \in LoopIds |-> IF t = 1 THEN "while" ELSE "none"]

\* C13: a loop thread that is alive when the poller is stopped eventually
\* terminates, whatever start and stop calls follow.
C13_StoppedLoopTerminates ==
    \A t \in LoopIds : (loop_pc[t] # "none" /\ ~is_running) ~> (loop_pc[t] = "none")

\* C14: at most one loop thread exists at any time.
C14_SingleLoop == Cardinality(Alive) <= 1

\* C15: every internal error of the pipeline (the run ends in the handler of
\* _process_single_donation) and of the loop body (the handler of
\* _polling_loop) adds one to api_errors, and a loop thread ends only when
\* the poller is stopped.
C15_InternalErrorsCounted ==
    [][ \A t \in LoopIds :
          /\ (loop_pc[t] = "psd_eval" /\ branch'[t] = "error") =>
                api_errors' = api_errors + 1
          /\ (loop_pc[t] = "poll_err" /\ loop_pc'[t] # "poll_err") =>
                api_errors' = api_errors + 1
          /\ (loop_pc[t] # "none" /\ loop_pc'[t] = "none") => ~is_running ]_vars

\* C16: after one run on a fresh poller, a test donation or a stale donation
\* leaves total_donations_processed at 0, and a fresh, non-test donation
\* whose amount reaches the threshold leaves it at 1.
C16_CounterPerKind ==
    RunDone(1) =>
        IF ClaimIsTest(cur[1]) \/ ClaimIsStale(cur[1], now)
        THEN total_donations_processed = 0
        ELSE (cur[1].amount.num /\ amount_rub[1] >= donation_threshold_rub) =>
                 total_donations_processed = 1

\* no run of the pipeline is under way
NoRunUnderWay == \A t \in LoopIds : loop_pc[t] \in {"none", "while", "poll", "for"}

\* C17 as stated: between runs, total_donations_processed is the number of
\* donations for which a generation task was dispatched.
C17_CounterEqualsDispatched ==
    NoRunUnderWay => total_donations_processed = Len(gen_tasks)

\* C17 amended: total_donations_processed counts every donation that passed
\* the test and freshness filters with a numeric amount, whether it reached
\* the threshold or not: each such run adds exactly one, before the
\* threshold decides, and nothing else changes the counter.
C17_CounterCountsEvaluated ==
    [][ /\ total_donations_processed' # total_donations_processed =>
              /\ total_donations_processed' = total_donations_processed + 1
              /\ \E t \in LoopIds :
                    /\ branch[t] \in {"qualify", "below"}
                    /\ loop_pc[t] = "psd_count" /\ loop_pc'[t] = "psd_lock"
        /\ \A t \in LoopIds :
              (branch[t] \in {"qualify", "below"} /\ loop_pc[t] = "psd_count"
                   /\ loop_pc'[t] # "psd_count") =>
                 total_donations_processed' = total_donations_processed + 1 ]_vars

C17_Witness ==
    /\ NoRunUnderWay
    /\ branch[1] = "below"
    /\ cur[1].id \in processed_donations
    /\ total_donations_processed = 2
    /\ Len(gen_tasks) = 1

\* C18: without an API key a call of generate_video returns None at once:
\* the state record, the generation counter and latest_video_path stay as
\* they are and no request is made to the video API.
C18_NoKeyNoEffect ==
    [][ ~api_key =>
          /\ UNCHANGED <<generation_count, latest_video_path, active_generation>>
          /\ \A c \in CallIds :
                /\ gv'[c].pc \in {"idle", "done"}
                /\ gv'[c].result = NoPath
                /\ gv'[c].starts = 0 /\ gv'[c].polls = 0 /\ gv'[c].downloads = 0 ]_vars

C18_Witness ==
    /\ ~api_key
    /\ gv[1].pc = "done"
    /\ gv[1].result = NoPath
    /\ active_generation = IdleGeneration
    /\ generation_count = 0
    /\ latest_video_path = NoPath

\* C19: a call of generate_video that passed the credential check and
\* returned None (a failed start, a failed or timed-out wait, a failed
\* download, or an exception inside the call) has left the state record
\* with status "error" and active = false.
C19_FailureLeavesError ==
    \A c \in CallIds :
        (gv[c].pc = "done" /\ gv[c].passed /\ gv[c].result = NoPath) =>
            /\ active_generation.status = "error"
            /\ ~active_generation.active

\* C20: a call of generate_video that returns a path returns the path it
\* downloaded to, latest_video_path is that path and the state record is
\* inactive, "done", with that path; a call that returns None leaves
\* latest_video_path as it was when the call began.
C20_SuccessSetsLatest ==
    \A c \in CallIds :
        gv[c].pc = "done" =>
            IF gv[c].result # NoPath
            THEN /\ gv[c].result = gv[c].path
                 /\ latest_video_path = gv[c].result
                 /\ active_generation.status = "done"
                 /\ ~active_generation.active
                 /\ active_generation.video_path = gv[c].result
            ELSE latest_video_path = gv[c].latest0

C20_Witness ==
    /\ gv[1].pc = "done"
    /\ gv[1].result = [t |-> 1, n |-> 2]
    /\ gv[1].latest0 = [t |-> 0, n |-> 1]
    /\ latest_video_path = gv[1].result
    /\ active_generation.status = "done"

\* C21 as stated: a call of generate_video makes at most one start request
\* and at most one download attempt, and a donation whose generation failed
\* is never dispatched again.
C21_NoRetryEver ==
    /\ \A c \in CallIds : gv[c].starts <= 1 /\ gv[c].downloads <= 1
    /\ \A i \in DOMAIN gen_tasks :
          gen_tasks[i].st = "failed" => Count([k \in DOMAIN gen_tasks |-> gen_tasks[k].id], gen_tasks[i].id) = 1

\* C21 amended: a call of generate_video makes at most one start request and
\* at most one download attempt, and a donation whose generation failed is
\* not dispatched again for as long as its identifier has not been evicted
\* from the processed set.
C21_NoRetryUntilEvicted ==
    /\ \A c \in CallIds : gv[c].starts <= 1 /\ gv[c].downloads <= 1
    /\ \A i \in DOMAIN gen_tasks :
          (gen_tasks[i].st = "failed" /\ gen_tasks[i].id \notin evicted) =>
              Count([k \in DOMAIN gen_tasks |-> gen_tasks[k].id], gen_tasks[i].id) = 1

C21_Witness ==
    /\ Len(gen_tasks) = 1
    /\ gen_tasks[1].st = "failed"
    /\ gv[1].starts = 1
    /\ gv[1].downloads = 1
    /\ gen_tasks[1].id \in processed_donations
    /\ cur[1].id = gen_tasks[1].id
    /\ loop_pc[1] = "for"

\* C22: refresh_access_token returns False and leaves the client's token
\* and the configuration's access and refresh token as they are when the
\* credentials or the refresh token are missing (no request is made), when
\* the token endpoint does not answer 200 and when the response has no
\* access_token; when it returns True the client's token and the
\* configuration's access token are the new access token and the
\* configuration's refresh token is the new one, or the old one when the
\* response carries none.
C22_RefreshAccessToken ==
    [][ fetch.pc = "refresh" =>
          /\ CannotRefresh =>
                fetch'.post_answer = "none" /\ fetch'.posts = fetch.posts
          /\ fetch'.post_answer \in {"none", "neterr", "500", "no_access_token"} =>
                /\ fetch'.refreshed = ""
                /\ UNCHANGED <<client_api_token, cfg_token, cfg_refresh_token>>
          /\ fetch'.refreshed # "" =>
                /\ fetch'.post_answer = "ok"
                /\ client_api_token' = fetch'.refreshed
                /\ cfg_token' = fetch'.refreshed
                /\ cfg_refresh_token' =
                      IF fetch'.post_refresh = "" THEN cfg_refresh_token
                      ELSE fetch'.post_refresh ]_vars

C22_Witness ==
    /\ fetch.pc = "get2"
    /\ fetch.post_answer = "ok"
    /\ fetch.post_refresh = ""
    /\ fetch.token0 = "old-token"
    /\ client_api_token = "new-token"
    /\ cfg_token = "new-token"
    /\ cfg_refresh_token = "rtoken"

\* the percentage the claim gives for a status
ClaimProgress(st) ==
    CASE st \in {"idle"} -> 0
      [] st \in {"starting"} -> 5
      [] st \in {"queued"} -> 10
      [] st \in {"waiting"} -> 15
      [] st \in {"active"} -> 30
      [] st \in {"generating"} -> 70
      [] st \in {"completed"} -> 85
      [] st \in {"downloading"} -> 90
      [] st \in {"done", "timeout", "error"} -> 100
      [] OTHER -> 50

\* the status in lower case, as the claim's amendment reads it
ClaimLower(st) ==
    IF st = "DONE" THEN "done" ELSE IF st = "Generating" THEN "generating" ELSE st

\* C23 as stated: get_generation_status reports the percentage of the
\* claim's table for the eleven named statuses and 50 for every other
\* status string.
C23_ProgressExact ==
    report # NoReport => report.progress = ClaimProgress(report.status)

\* C23 amended: get_generation_status reports the percentage the claim's
\* table gives for the status in lower case, and 50 for every status that
\* is not one of the eleven names in any spelling of upper and lower case.
C23_ProgressOfLowerCase ==
    report # NoReport => report.progress = ClaimProgress(ClaimLower(report.status))

C23_Witness ==
    /\ report.status = "Generating"
    /\ report.progress = 70
    /\ report.active


\* C24: a conversion whose lookup finds a rate cached for its currency pair
\* less than 5 minutes after that rate was cached returns the amount times
\* that rate, makes no request to the API and leaves the entry as it is; one
\* whose lookup comes 5 minutes or more after the caching deletes the entry
\* and makes one request, and a rate it fetches is cached for 5 minutes from
\* the moment it is stored.
C24_CachedRateUntilExpiry ==
    /\ (cc.pc \in {"fetch", "done"} /\ cc.entry0 # NoEntry) =>
          IF cc.at < cc.entry0.expires_at
          THEN /\ cc.pc = "done"
               /\ cc.gets = 0
               /\ cc.result = cc.amount * cc.entry0.rate
               /\ cache[cc.key] = cc.entry0
          ELSE /\ cc.pc = "fetch" => cache[cc.key] = NoEntry
               /\ cc.pc = "done" => cc.gets = 1
    /\ (cc.pc = "done" /\ cc.gets = 1 /\ cc.result # NoRate) =>
          cache[cc.key] = [rate |-> cc.rate, expires_at |-> cc.cached_at + 5]
    /\ \A k \in Pairs : cache[k] # NoEntry => cache[k].expires_at <= clock + 5

C24_Witness ==
    /\ cc.pc = "done"
    /\ cc.key = <<"USD", "RUB">>
    /\ cc.entry0.rate = 90
    /\ cc.at = cc.entry0.expires_at - 1
    /\ cc.gets = 0
    /\ cc.result = 180
    /\ cache[<<"EUR", "RUB">>].rate = 70

\* the characters the claim allows in a name
ClaimAllowedChars ==
    Range(UpperLetters) \cup Range(LowerLetters)
        \cup {"0", "1", "2", "3", "4", "5", "6", "7", "8", "9", "-", "_", "."}

\* the claim's condition on a name
ClaimSafeName(n) ==
    /\ Len(n) > 0
    /\ \A i \in DOMAIN n : n[i] \notin {"/", "\\"}
    /\ \A i \in 1 .. (Len(n) - 1) : ~(n[i] = "." /\ n[i + 1] = ".")
    /\ Len(n) >= 4
    /\ n[Len(n) - 3] = "."
    /\ n[Len(n) - 2] \in {"m", "M"}
    /\ n[Len(n) - 1] \in {"p", "P"}
    /\ n[Len(n)] = "4"
    /\ \A i \in DOMAIN n : n[i] \in ClaimAllowedChars

\* a name without the white space around it
ClaimTrimmed(n) ==
    LET inked == {i \in DOMAIN n : n[i] # " "}
    IN IF inked = {} THEN <<>>
       ELSE SubSeq(n, CHOOSE i \in inked : \A j \in inked : i <= j,
                      CHOOSE i \in inked : \A j \in inked : i >= j)

\* a request that carries a name has been answered in this step
ClaimNamed == web' # web /\ web'.op \in {"serve", "delete", "play"}

ClaimUntouched ==
    /\ disk' = disk
    /\ play_request' = play_request
    /\ web'.effect = "none"
    /\ web'.code \in {400, 404}

\* C25 as stated: a request whose name, as supplied, is empty, has "..",
\* "/" or "\", does not end in ".mp4" in any case or has a character other
\* than ASCII letters, digits, "-", "_" and "." reads, deletes and queues
\* nothing; a stored play request is served only under a name of that form.
C25_RefusedUnlessSafe ==
    [][ /\ (ClaimNamed /\ ~ClaimSafeName(web'.name)) => ClaimUntouched
        /\ (web'.op = "latest" /\ web'.requested = "true")
               => ClaimSafeName(web'.file) ]_vars

\* C25: the same with the name taken as play-in-obs takes it, without the
\* white space around it: a request whose name is not of the safe form reads,
\* deletes and queues nothing, every file read, deleted or queued for a named
\* request is the file of that name, and "clip-1.mp4" is served while it
\* exists.
C25_RefusedUnlessTrimmedSafe ==
    [][ /\ ClaimNamed =>
            LET n == IF web'.op = "play" THEN ClaimTrimmed(web'.name)
                     ELSE web'.name
            IN /\ ~ClaimSafeName(n) => ClaimUntouched
               /\ web'.effect # "none" => web'.file = n
               /\ (web'.op = "serve" /\ n = Clip /\ Exists(Clip))
                      => web'.code = 200 /\ web'.effect = "read"
        /\ (web'.op = "latest" /\ web'.requested = "true")
               => ClaimSafeName(web'.file) /\ web'.file = play_request.filename
      ]_vars

C25_Witness ==
    /\ web.op = "play"
    /\ web.name = Padded
    /\ web.code = 200
    /\ web.effect = "queued"
    /\ play_request.filename = Clip
    /\ Exists(Secret)

\* the videos of the directory, as the claims speak of them: the files of the
\* directory itself with a name of the safe form, oldest first
ClaimVideos ==
    SelectSeq(disk, LAMBDA f : ClaimSafeName(f))

\* get_latest_video_data answers in this step
ClaimPolled ==
    /\ web'.op = "latest"
    /\ web' # web \/ play_request' # play_request

\* C26: with a play request {filename, ts} stored, a call of
\* get_latest_video_data made at ts + 8 seconds or earlier, while the file
\* exists, answers that file with requested = true and leaves the request
\* stored; a call made later than ts + 8 seconds clears the request and, when
\* the directory has a video, answers the newest one with requested = false.
C26_PlayRequestTtl ==
    [][ (ClaimPolled /\ play_request # NoRequest) =>
          IF wall <= 2 * play_request.ts + 2 * 8
          THEN /\ play_request' = play_request
               /\ Exists(play_request.filename) =>
                     /\ web'.requested = "true"
                     /\ web'.file = play_request.filename
          ELSE /\ play_request' = NoRequest
               /\ ClaimVideos # <<>> =>
                     /\ web'.requested = "false"
                     /\ web'.file = ClaimVideos[Len(ClaimVideos)]
      ]_vars

C26_Witness ==
    /\ web.op = "latest"
    /\ web.requested = "true"
    /\ web.file = Clip
    /\ play_request = [filename |-> Clip, ts |-> 1]
    /\ web.at = 18
    /\ Exists(V2)

\* a route has answered in this step
ClaimAnswered(op) == reply'.op = op /\ reply' # reply

\* C27: POST /api/start-polling with no access token in the config answers
\* success = false and the poller is not running afterwards; whenever it
\* answers success = true the poller is running afterwards; after
\* POST /api/stop-polling the running flag is false.
C27_StartStopRoutes ==
    [][ /\ (ClaimAnswered("start") /\ cfg_token = "")
            => ~reply'.success /\ ~is_running'
        /\ (ClaimAnswered("start") /\ reply'.success) => is_running'
        /\ ClaimAnswered("stop") => ~is_running' ]_vars

\* the statuses with which the claim lets the wait go on or succeed
ClaimKnownStatuses == {"waiting", "active", "queued", "generating", "completed"}

\* what the claim says of a call that has returned, but for the callback
ClaimWaitResult ==
    wfc.pc = "done" =>
        /\ wfc.result = "url" =>
              /\ wfc.last.http = 200
              /\ wfc.last.status = "completed"
              /\ wfc.last.url
              /\ wfc.polled_at < wfc.max_wait_time
        /\ (wfc.last.http = 200 /\ wfc.last.status = "completed" /\ wfc.last.url)
              => wfc.result = "url"
        /\ (wfc.polls > 0 /\ wfc.last.http >= 400) => wfc.result = "none"
        /\ (wfc.polls > 0 /\ wfc.last.status = "completed" /\ ~wfc.last.url)
              => wfc.result = "none"
        /\ (wfc.polls > 0 /\ wfc.last.status \notin ClaimKnownStatuses)
              => wfc.result = "none"
        /\ (wfc.polls = 0 \/ wfc.last.status \in ClaimKnownStatuses \ {"completed"})
              => wfc.result = "none" /\ wfc.elapsed >= wfc.max_wait_time

ClaimWaitEnds == (wfc.pc \in {"check", "poll"}) ~> (wfc.pc = "done")

ClaimTaken(t) ==
    /\ loop_pc[t] = "for"
    /\ loop_pc'[t] \in {"for", "psd_entry"}
    /\ cur'[t] # cur[t]

\* loop thread t passes the entry of _process_single_donation in this step
ClaimEntered(t) == loop_pc[t] = "psd_entry" /\ loop_pc'[t] # "psd_entry"

\* nothing the pipeline can write has changed in this step
ClaimNoEffect ==
    /\ processed_donations' = processed_donations
    /\ processed_order' = processed_order
    /\ recent_donations' = recent_donations
    /\ total_donations_processed' = total_donations_processed
    /\ total_videos_generated' = total_videos_generated
    /\ api_errors' = api_errors
    /\ gen_tasks' = gen_tasks

\* C29: when a loop thread is handed a donation whose identifier is in the
\* processed set, by the for loop or at the entry of the pipeline, it goes
\* back to the for loop and the processed set, the order list, the recent
\* buffer, the three counters and the generation tasks are as before.
C29_ProcessedIdNoEffect ==
    [][ \A t \in LoopIds :
          ((ClaimTaken(t) \/ ClaimEntered(t)) /\ cur'[t].id \in processed_donations)
              => loop_pc'[t] = "for" /\ ClaimNoEffect ]_vars

C29_Witness ==
    /\ loop_pc[2] = "for"
    /\ branch[2] = "none"
    /\ cur[2].id = 1
    /\ processed_donations = {1}
    /\ Len(gen_tasks) = 1
    /\ total_donations_processed = 1
    /\ loop_pc[1] = "for"
    /\ cur[1].id = 1

\* C30: a donation without an identifier is taken into the pipeline and
\* leaves it at its entry, back in the for loop where the next donation of
\* the list is taken, with the processed set, the order list, the recent
\* buffer, the counters and the generation tasks as before; no such donation
\* is ever in the processed set, the recent buffer or a generation task.
C30_NoIdSkipped ==
    /\ [][ /\ (ClaimTaken(1) /\ cur'[1].id = 0)
               => loop_pc'[1] = "psd_entry" /\ ClaimNoEffect
           /\ (ClaimEntered(1) /\ cur[1].id = 0)
               => loop_pc'[1] = "for" /\ ClaimNoEffect ]_vars
    /\ [](/\ 0 \notin processed_donations
          /\ 0 \notin Range(processed_order)
          /\ 0 \notin Range(recent_donations)
          /\ \A i \in DOMAIN gen_tasks : gen_tasks[i].id # 0)

C30_Witness ==
    /\ loop_pc[1] = "for"
    /\ cur[1] = Fed(0, Num(donation_threshold_rub), "RUB")
    /\ processed_donations = {1}
    /\ recent_donations = <<1>>
    /\ Len(gen_tasks) = 1
    /\ total_donations_processed = 1

\* the converter gave loop thread t nothing for its donation
ClaimNoRate(t) == converted[t] # NotConverted /\ ~converted[t].ok

\* the amount in the reference currency, as the claims speak of it
ClaimConverted(t) ==
    IF converted[t].ok THEN cur[t].amount.v * converted[t].rate
    ELSE cur[t].amount.v

\* C31: after a run in which convert_to_rub was called for a donation in
\* another currency and gave nothing, the identifier is in the processed
\* set, the amount compared is the raw one, and a generation task exists
\* exactly when the raw amount reaches the threshold.
C31_RawAmountOnConversionFailure ==
    (RunDone(1) /\ ClaimNoRate(1)) =>
        /\ cur[1].currency # "RUB"
        /\ cur[1].id \in processed_donations
        /\ amount_rub[1] = cur[1].amount.v
        /\ (Len(gen_tasks) = 1) <=> (cur[1].amount.v >= donation_threshold_rub)
        /\ \A i \in DOMAIN gen_tasks : gen_tasks[i].id = cur[1].id

C31_Witness ==
    /\ RunDone(1)
    /\ ClaimNoRate(1)
    /\ cur[1].currency = "USD"
    /\ cur[1].amount.v = donation_threshold_rub
    /\ Len(gen_tasks) = 1
    /\ processed_donations = {cur[1].id}

\* C32: after a run on a donation that is not a test, is fresh and has an
\* amount, a generation task exists exactly when the amount in the reference
\* currency reaches the threshold, an amount equal to it included, and the
\* identifier is in the processed set either way.
C32_DispatchIffThresholdReached ==
    ( /\ RunDone(1)
      /\ ~ClaimIsTest(cur[1])
      /\ ~ClaimIsStale(cur[1], now)
      /\ cur[1].amount.num )
    => /\ (Len(gen_tasks) = 1) <=> (ClaimConverted(1) >= donation_threshold_rub)
       /\ Len(gen_tasks) <= 1
       /\ cur[1].id \in processed_donations

C32_Witness ==
    /\ RunDone(1)
    /\ ~ClaimIsTest(cur[1])
    /\ ~ClaimIsStale(cur[1], now)
    /\ cur[1].currency = "USD"
    /\ converted[1].ok
    /\ ClaimConverted(1) = donation_threshold_rub
    /\ Len(gen_tasks) = 1

\* d's timestamp lies more than the 5-minute window away from the clock,
\* before it or after it
ClaimOutsideWindow(d, nw) ==
    /\ d.created_at.fmt = "ts"
    /\ \/ nw - d.created_at.t > FreshWindow
       \/ d.created_at.t - nw > FreshWindow

\* C33: _is_fresh accepts a timestamp exactly when it lies within 5 minutes
\* of the clock on either side, and a run on a donation whose timestamp lies
\* further away takes the stale branch and leaves no generation task.
C33_FreshIffWithinWindow ==
    (RunDone(1) /\ cur[1].created_at.fmt = "ts") =>
        /\ is_fresh(parse_created_at(cur[1].created_at), now)
               <=> ~ClaimOutsideWindow(cur[1], now)
        /\ ClaimOutsideWindow(cur[1], now) => gen_tasks = <<>>



\* C34: any two consecutive donation-list requests of the poller, whoever
\* sent them, are at least min_request_interval apart.
C34_RequestsSpaced ==
    \A i \in 1 .. (Len(sent) - 1) :
        sent[i + 1].at - sent[i].at >= min_request_interval


\* generation task i has come to its end
ClaimTaskEnded(i) == i \in DOMAIN gen_tasks /\ gen_tasks[i].st \in {"ok", "failed"}

\* a step that clears the running flag
ClaimStopped == is_running /\ ~is_running'

\* task i records its success in this step
ClaimSucceeds(i) ==
    /\ i \in DOMAIN gen_tasks
    /\ gen_tasks[i].st = "counting"
    /\ gen_tasks'[i].st = "ok"

\* C35: a step of stop_polling leaves every dispatched generation task and
\* the counter of generated videos as they were; every dispatched task comes
\* to its end, ok or failed, also once the poller is stopped; and a task that
\* succeeds while the poller is stopped writes total_videos_generated as one
\* more than the value its increment read.
C35_StopLeavesTasksRunning ==
    /\ [][ClaimStopped =>
            /\ gen_tasks' = gen_tasks
            /\ total_videos_generated' = total_videos_generated]_vars
    /\ [][\A i \in 1 .. MaxTasks :
            (ClaimSucceeds(i) /\ ~is_running) =>
                /\ total_videos_generated' = gen_tasks[i].loaded + 1
                /\ total_videos_generated' >= 1]_vars
    /\ \A i \in 1 .. MaxTasks :
          (i \in DOMAIN gen_tasks /\ ~is_running) ~> ClaimTaskEnded(i)

C35_Witness ==
    /\ ~is_running
    /\ \E i \in DOMAIN gen_tasks : gen_tasks[i].st = "ok"
    /\ \E i \in DOMAIN gen_tasks : gen_tasks[i].st = "counting"
    /\ total_videos_generated >= 1


\* the place of a status in the order the claims give: starting, the
\* statuses the client reports while it waits, completed, downloading, done;
\* error and timeout can be reached from every place; 0 for any other status
ClaimRank(st) ==
    CASE st = "starting" -> 1
      [] st \in {"queued", "waiting", "active", "generating"} -> 2
      [] st = "completed" -> 3
      [] st = "downloading" -> 4
      [] st = "done" -> 5
      [] st \in {"error", "timeout"} -> 6
      [] OTHER -> 0

\* no call of generate_video is between its credential check and its return
ClaimAtRest(r) == r.pc \in {"idle", "done"}

\* C36: with caller 1 alone, a step inside a call changes the status only
\* to a status of the same or a later place (or to error or timeout); when
\* the call that passed the credential check has returned, the status is
\* done, error or timeout; and between a return and the next call the status
\* stays as it is.
C36_StatusForwardThenTerminal ==
    /\ [][(~ClaimAtRest(gv[1]) /\ active_generation'.status # active_generation.status)
            => /\ ClaimRank(active_generation'.status) > 0
               /\ \/ ClaimRank(active_generation'.status)
                        >= ClaimRank(active_generation.status)
                  \/ active_generation'.status = "starting"]_vars
    /\ [][(ClaimAtRest(gv[1]) /\ ClaimAtRest(gv'[1]))
            => active_generation'.status = active_generation.status]_vars
    /\ [](  (gv[1].pc = "done" /\ gv[1].passed)
            => active_generation.status \in {"done", "error", "timeout"})


\* C37: whenever no fetch is under way, the poller's api_token, the client's
\* api_token and the configuration's access token are the same value.
C37_TokensAgree ==
    fetch.pc = "idle" =>
        /\ api_token = client_api_token
        /\ client_api_token = cfg_token


\* caller c has built its target filename and not yet handed back its result
ClaimHasName(c) == gv[c].passed /\ gv[c].path # NoPath

\* C38: two calls of generate_video that are under way together have
\* different target filenames.
C38_DistinctFilenames ==
    \A c1, c2 \in CallIds :
        (c1 # c2 /\ ClaimHasName(c1) /\ ClaimHasName(c2)) =>
            gv[c1].path # gv[c2].path

\* caller c is inside generate_video, after the state record was written
\* for its call and before its last update of the record
ClaimInFlight(c) ==
    gv[c].pc \in {"prompt", "start", "wait", "wait_failed", "downloading",
                  "download", "dl_ok", "dl_failed"}

\* C39: while a call of generate_video is in flight the state record, which
\* get_generation_status copies into its answer, says active.
C39_ActiveWhileInFlight ==
    (\E c \in CallIds : ClaimInFlight(c)) => active_generation.active


\* C40: no step lowers total_donations_processed, total_videos_generated or
\* api_errors, and in every state the videos counted are at most the
\* generation tasks dispatched, which are at most the donations counted.
C40_CountersMonotoneAndOrdered ==
    /\ [][/\ total_donations_processed' >= total_donations_processed
          /\ total_videos_generated' >= total_videos_generated
          /\ api_errors' >= api_errors]_vars
    /\ [](/\ total_videos_generated <= Len(gen_tasks)
          /\ Len(gen_tasks) <= total_donations_processed)
====
